---- MODULE Spec2Model ----
(***************************************************************************)
(* Verification model of the relayer's decision engine:                    *)
(*   - ProfitClient    (price cache, gas-cost cache, fill profitability)   *)
(*   - InventoryClient (virtual balances, repayment-chain selection,       *)
(*                      L1->L2 rebalance pass)                             *)
(*                                                                         *)
(* Fixed-point numbers are BigNumbers scaled by 10^18 in the program.  TLC *)
(* integers are 32 bit, so the model scales every fixed-point quantity by  *)
(* FixedPoint = 10^3 instead; token decimals are scaled the same way       *)
(* (a token with FixedPointDigits decimals has scalar 1).                  *)
(***************************************************************************)
EXTENDS Integers, Sequences, FiniteSets, TLC

VARIABLES
    \* ---- ProfitClient ----
    isTestnet,        \* this.isTestnet (hub chain is not mainnet)
    gasCfg,           \* [gasPadding, gasMultiplier, gasMessageMultiplier, unconfiguredChains,
                      \*  simCost]: what the constructor is given, and what the chains'
                      \*  relayerFeeQueries answer
    envMinFee,        \* minimum relayer fee the environment / default configures for the route
    minRelayerFees,   \* this.minRelayerFees: route key -> cached minimum fee
    tokenSymbolMap,   \* this.tokenSymbolMap: symbol -> hub-chain address
    tokenPrices,      \* this.tokenPrices: address -> price
    totalGasCosts,    \* this.totalGasCosts: chain -> TransactionCostEstimate
    tick,             \* number of update() calls started so far
    updatePc,         \* state of the promise returned by the last update()
    pricePc,          \* position of updateTokenPrices() of the last update()
    gasPc,            \* chain -> position of the chain's callback in updateGasCosts()
    priceTick,        \* history: tick whose price response tokenPrices holds (0 = none)
    gasTick,          \* history: chain -> tick whose simulation totalGasCosts[chain] holds
    gasSim,           \* history: chain -> outcome of the chain's last template simulation
    call,             \* the last consumer call and what it returned
    \* ---- InventoryClient and the clients it reads ----
    tokenConfig,          \* inventoryConfig.tokenConfig: L1 token -> its configuration
    prioritizeLpUtilization,
    logDisabledManagement,
    tokenBalances,        \* tokenClient: <<chain, token>> -> local balance (token's decimals)
    tokenShortfalls,      \* tokenClient: <<chain, token>> -> shortfall total requirement
    outstandingTransfers, \* crossChainTransferClient: <<chain, L2 token>> -> pending inbound amount
    poolRebalanceRoutes,  \* hubPoolClient: chains the L1 token has a pool rebalance route to
    upcomingRefunds,      \* bundleDataClient: chain -> refund owed to the relayer (L2 decimals)
    runningBalances,      \* hubPoolClient/bundleDataClient: chain -> latest running balance
    spokeTargets,         \* configStoreClient: chain -> spoke target balance
    bundleRefundsPromise,         \* this.bundleRefundsPromise
    excessRunningBalancePromises, \* this.excessRunningBalancePromises: L1 token -> promise
    \* ---- one determineRefundChainId call ----
    deposit,          \* the deposit passed to the call
    refundPc,         \* position of the call
    refundLocals,     \* locals that live across an await
    refundResult,     \* what the call returned, or that it threw
    \* ---- one rebalanceInventoryIfNeeded pass ----
    rebalancePc,            \* position of the pass
    rebalancesRequired,     \* the plans getPossibleRebalances returned
    planIndex,              \* index of the plan the loop is at
    possibleRebalances,
    unexecutedRebalances,
    executedTransactions,
    passHistory,      \* history: hub balance at the start of the pass, number of plans the
                      \* loop has gone past, plans skipped for a changed balance, caught error
    \* ---- LineaWethBridge: the two chains' logs and one finalization query ----
    l1Log,                  \* MessageSent events of the L1 message service, in log order
    l2Log,                  \* MessageClaimed events of the L2 message service, in log order
    bridgeArgs,             \* toAddress and eventConfig of the query
    bridgePc,               \* position of the query
    l1SearchConfig,         \* the translated L1 block range
    initiatedQueryResult,
    internalMessageHashes,  \* the hashes the finalization query is filtered by
    bridgeResult,           \* the BridgeEvents the query returned
    \* ---- concurrent determineRefundChainId calls on one InventoryClient ----
    callers,                \* caller -> position, deposit, locals and result of its call
    updates,                \* number of InventoryClient.update() calls so far
    fetches,                \* history: how often getAllBundleRefunds and
                            \* _getLatestRunningBalances were started, by which caller, in
                            \* which update() cycle, and the first caller to ask for each
    \* ---- one withdrawExcessBalances pass ----
    withdrawPc,             \* position of the pass
    withdrawWorld,          \* adapters: chains with an L2 bridge for the L1 token, and the
                            \* pending withdrawal amount of every (chain, L2 token)
    pendingAsked,           \* (chain, L2 token) pairs waiting for getL2PendingWithdrawalAmount
    withdrawalsRequired,    \* chain -> the withdrawals planned for it
    withdrawalsInFlight,    \* <<chain, index>> of the withdrawTokenFromL2 calls not yet settled
    txnReceipts,            \* chain -> indexes of its withdrawals that were submitted
    withdrawHistory,        \* history: token balances at the start of the pass, and the
                            \* largest number of submissions in flight together
    \* ---- one unwrapWeth pass ----
    unwrapPc,               \* position of the pass
    unwrapWorld,            \* the chains with unwrap threshold and target configured, and
                            \* the relayer's ETH balance on every chain
    unwrapsRequired,        \* the unwraps planned
    unexecutedUnwraps,      \* the unwraps the WETH balance does not cover
    unwrapIndex,            \* index of the unwrap being submitted
    executedUnwraps,        \* the unwraps submitted
    unwrapHistory           \* history: token balances at the start of the pass, and
                            \* whether the catch block ran

profitVars == <<isTestnet, gasCfg, envMinFee, minRelayerFees, tokenSymbolMap, tokenPrices,
                totalGasCosts, tick, updatePc, pricePc, gasPc, priceTick, gasTick, gasSim, call>>

inventoryVars == <<tokenConfig, prioritizeLpUtilization, logDisabledManagement, tokenBalances,
                   tokenShortfalls, outstandingTransfers, poolRebalanceRoutes, upcomingRefunds,
                   runningBalances, spokeTargets, bundleRefundsPromise,
                   excessRunningBalancePromises>>

refundVars == <<deposit, refundPc, refundLocals, refundResult>>

rebalanceVars == <<rebalancePc, rebalancesRequired, planIndex, possibleRebalances,
                   unexecutedRebalances, executedTransactions, passHistory>>

bridgeVars == <<l1Log, l2Log, bridgeArgs, bridgePc, l1SearchConfig, initiatedQueryResult,
                internalMessageHashes, bridgeResult>>

callerVars == <<callers, updates, fetches>>

withdrawVars == <<withdrawPc, withdrawWorld, pendingAsked, withdrawalsRequired,
                  withdrawalsInFlight, txnReceipts, withdrawHistory>>

unwrapVars == <<unwrapPc, unwrapWorld, unwrapsRequired, unexecutedUnwraps, unwrapIndex,
                executedUnwraps, unwrapHistory>>

vars == <<profitVars, inventoryVars, refundVars, rebalanceVars, bridgeVars, callerVars,
          withdrawVars, unwrapVars>>

(***************************************************************************)
(* Numbers                                                                 *)
(***************************************************************************)
FixedPointDigits == 3
FixedPoint == 1000
Uint256Max == 1000000000

\* Bounds of the model.
MaxTicks == 2
MaxProfitTicks == 1

Pow10(n) == IF n = 0 THEN 1 ELSE IF n = 1 THEN 10 ELSE IF n = 2 THEN 100 ELSE 1000

\* BigNumber.div: truncates toward zero; the divisor is positive wherever it is used
\* (a zero divisor throws and is tested for by the caller).
BNDiv(a, b) == IF a >= 0 THEN a \div b ELSE -((-a) \div b)

Min(a, b) == IF a <= b THEN a ELSE b

\* obj[k] = v on a JavaScript object modelled as a function on its defined keys.
Put(f, k, v) == [x \in (DOMAIN f) \cup {k} |-> IF x = k THEN v ELSE f[x]]

EmptyMap == [x \in {} |-> 0]

(***************************************************************************)
(* ProfitClient: tokens, price cache                                       *)
(***************************************************************************)
ProfitChains == {1, 2}

\* Symbols a deposit's token can resolve to. XYZ is a token that is neither an L1
\* token nor a gas token, so updateTokenPrices never enters it in tokenSymbolMap.
Symbols == {"USDC", "WETH", "ETH", "XYZ"}
Addresses == {"aUSDC", "aWETH", "aXYZ"}

\* TOKEN_SYMBOLS_MAP: decimals and hub-chain address per symbol.
SymbolAddress(symbol) ==
    IF symbol = "USDC" THEN "aUSDC" ELSE IF symbol \in {"WETH", "ETH"} THEN "aWETH" ELSE "aXYZ"

TokenDecimals(symbol) == IF symbol = "USDC" THEN FixedPointDigits - 1 ELSE FixedPointDigits

\* TOKEN_EQUIVALENCE_REMAPPING[token] ?? token
RemappedSymbol(token) == IF token = "ETH" THEN "WETH" ELSE token

\* The {symbol: address} object updateTokenPrices builds: the L1 tokens, then the
\* native token of every enabled chain.
TokensToUpdate == [s \in {"USDC", "WETH", "ETH"} |-> SymbolAddress(s)]

\* resolveTokenAddress: an address is returned as is; a symbol is looked up in
\* tokenSymbolMap under its remapped name, then under its own; the assert throws
\* when neither is there.
resolveTokenAddress(token) ==
    IF token \in Addresses
    THEN [threw |-> FALSE, address |-> token]
    ELSE LET remapped == RemappedSymbol(token)
         IN IF remapped \in DOMAIN tokenSymbolMap
            THEN [threw |-> FALSE, address |-> tokenSymbolMap[remapped]]
            ELSE IF token \in DOMAIN tokenSymbolMap
                 THEN [threw |-> FALSE, address |-> tokenSymbolMap[token]]
                 ELSE [threw |-> TRUE, address |-> "none"]

\* A variant that throws for an address without a price instead of returning 0.
getPriceOfTokenThrowing(token) ==
    LET resolved == resolveTokenAddress(token)
    IN IF resolved.threw \/ resolved.address \notin DOMAIN tokenPrices
       THEN [threw |-> TRUE, price |-> 0, warned |-> FALSE]
       ELSE [threw |-> FALSE, price |-> tokenPrices[resolved.address], warned |-> FALSE]

\* getPriceOfToken: 0 with a warning when the address has no price.
getPriceOfToken(token) ==
    LET resolved == resolveTokenAddress(token)
    IN IF resolved.threw
       THEN [threw |-> TRUE, price |-> 0, warned |-> FALSE]
       ELSE IF resolved.address \in DOMAIN tokenPrices
            THEN [threw |-> FALSE, price |-> tokenPrices[resolved.address], warned |-> FALSE]
            ELSE [threw |-> FALSE, price |-> 0, warned |-> TRUE]

(***************************************************************************)
(* ProfitClient: gas cost of a fill                                        *)
(***************************************************************************)
\* What the simulator returns when the simulation succeeds.
SimCost == gasCfg.simCost

\* A variant that reports a failed simulation as an ordinary estimate.
getTotalGasCostIgnoringFailure(sim) == SimCost

\* _getTotalGasCost: the simulator's estimate; when the simulation throws, the
\* error is logged and the uint256Max triple is returned.
getTotalGasCostUncached(sim) ==
    IF sim = "ok"
    THEN SimCost
    ELSE [nativeGasCost |-> Uint256Max, tokenGasCost |-> Uint256Max, gasPrice |-> Uint256Max]

\* Whether getTotalGasCost answers from this.totalGasCosts without simulating.
UsesCachedGasCost(d) == d.messageEmpty /\ d.destinationChainId \in DOMAIN totalGasCosts

\* A variant that simulates for every deposit.
getTotalGasCostAlwaysSimulating(d, sim) == getTotalGasCostUncached(sim)

\* getTotalGasCost: the chain's cached cost for a deposit without a message, when
\* there is one; else a simulation of this deposit.
getTotalGasCost(d, sim) ==
    IF UsesCachedGasCost(d)
    THEN totalGasCosts[d.destinationChainId]
    ELSE getTotalGasCostUncached(sim)

\* A variant that applies the plain multiplier to every deposit.
resolveGasMultiplierIgnoringMessage(d) == gasCfg.gasMultiplier

resolveGasMultiplier(d) ==
    IF d.messageEmpty THEN gasCfg.gasMultiplier ELSE gasCfg.gasMessageMultiplier

\* resolveGasToken: the native token of every modelled chain is ETH.
GasTokenSymbol == "ETH"

CostThrow ==
    [threw |-> TRUE, simulated |-> FALSE, nativeGasCost |-> 0, tokenGasCost |-> 0,
     gasPrice |-> 0, gasTokenPriceUsd |-> 0, gasCostUsd |-> 0]

\* estimateFillCost. The gas token price is read first (it throws for a symbol that
\* does not resolve), then the gas cost is obtained, then the three fields are
\* validated: a field equal to uint256Max or <= 0 throws.
estimateFillCost(d, sim) ==
    LET gasTokenPrice == getPriceOfToken(GasTokenSymbol)
    IN IF gasTokenPrice.threw
       THEN CostThrow
       ELSE LET totalGasCost == getTotalGasCost(d, sim)
                simulated == ~UsesCachedGasCost(d)
                gasTokenPriceUsd == gasTokenPrice.price
                Unknown(field) == field = Uint256Max \/ field <= 0
            IN IF \/ Unknown(totalGasCost.nativeGasCost)
                  \/ Unknown(totalGasCost.tokenGasCost)
                  \/ Unknown(gasTokenPriceUsd)
               THEN [CostThrow EXCEPT !.simulated = simulated]
               ELSE LET nativeGasCost == BNDiv(totalGasCost.nativeGasCost * gasCfg.gasPadding, FixedPoint)
                        paddedTokenGasCost == BNDiv(totalGasCost.tokenGasCost * gasCfg.gasPadding, FixedPoint)
                        tokenGasCost == BNDiv(paddedTokenGasCost * resolveGasMultiplier(d), FixedPoint)
                    IN [threw |-> FALSE,
                        simulated |-> simulated,
                        nativeGasCost |-> nativeGasCost,
                        tokenGasCost |-> tokenGasCost,
                        gasPrice |-> totalGasCost.gasPrice,
                        gasTokenPriceUsd |-> gasTokenPriceUsd,
                        gasCostUsd |-> BNDiv(tokenGasCost * gasTokenPriceUsd,
                                             Pow10(TokenDecimals(GasTokenSymbol)))]

(***************************************************************************)
(* ProfitClient: fill profitability                                        *)
(***************************************************************************)
FillThrow(simulated) ==
    [threw |-> TRUE, simulated |-> simulated, profitable |-> FALSE, netRelayerFeePct |-> 0,
     netRelayerFeeUsd |-> 0, grossRelayerFeeUsd |-> 0, grossRelayerFeePct |-> 0,
     totalFeePct |-> 0, inputTokenPriceUsd |-> 0, outputTokenPriceUsd |-> 0,
     inputAmountUsd |-> 0, outputAmountUsd |-> 0,
     nativeGasCost |-> 0, tokenGasCost |-> 0, gasPrice |-> 0, gasCostUsd |-> 0]

\* A variant that ignores deposit.updatedOutputAmount.
outputAmountIgnoringUpdate(d) == d.outputAmount

\* min(deposit.outputAmount, deposit.updatedOutputAmount ?? deposit.outputAmount)
effectiveOutputAmount(d) ==
    Min(d.outputAmount, IF d.hasUpdatedOutputAmount THEN d.updatedOutputAmount ELSE d.outputAmount)

\* inputAmountUsd / outputAmountUsd: the amount scaled to 18 decimals, times the
\* price.
amountUsd(amount, symbol, priceUsd) ==
    BNDiv(amount * Pow10(FixedPointDigits - TokenDecimals(symbol)) * priceUsd, FixedPoint)

\* netRelayerFeePct: the net fee as a portion of the output value, 0 when the
\* output value is 0.
netRelayerFeePctOf(netRelayerFeeUsd, outputAmountUsd) ==
    IF outputAmountUsd > 0
    THEN BNDiv(netRelayerFeeUsd * FixedPoint, outputAmountUsd)
    ELSE 0

\* profitable: both prices known and the net fee at least the minimum.
profitableOf(inputTokenPriceUsd, outputTokenPriceUsd, netRelayerFeePct, minFee) ==
    /\ inputTokenPriceUsd > 0
    /\ outputTokenPriceUsd > 0
    /\ netRelayerFeePct >= minFee

\* calculateFillProfitability, in the order of the code: the statements that can
\* throw are the two price lookups, the division by inputAmountUsd and
\* estimateFillCost.
calculateFillProfitability(d, lpFeePct, minRelayerFeePct, sim) ==
    LET inputPrice == getPriceOfToken(d.inputSymbol)
        outputPrice == getPriceOfToken(d.outputSymbol)
    IN IF inputPrice.threw \/ outputPrice.threw
       THEN FillThrow(FALSE)
       ELSE
    LET inputTokenPriceUsd == inputPrice.price
        scaledInputAmount == d.inputAmount * Pow10(FixedPointDigits - TokenDecimals(d.inputSymbol))
        inputAmountUsd == amountUsd(d.inputAmount, d.inputSymbol, inputTokenPriceUsd)
        outputTokenPriceUsd == outputPrice.price
        outputAmountUsd == amountUsd(effectiveOutputAmount(d), d.outputSymbol, outputTokenPriceUsd)
    IN IF inputAmountUsd = 0
       THEN FillThrow(FALSE)
       ELSE
    LET totalFeePct == BNDiv((inputAmountUsd - outputAmountUsd) * FixedPoint, inputAmountUsd)
        scaledLpFeeAmount == BNDiv(scaledInputAmount * lpFeePct, FixedPoint)
        lpFeeUsd == BNDiv(scaledLpFeeAmount * inputTokenPriceUsd, FixedPoint)
        grossRelayerFeeUsd == inputAmountUsd - outputAmountUsd - lpFeeUsd
        grossRelayerFeePct ==
            IF grossRelayerFeeUsd > 0
            THEN BNDiv(grossRelayerFeeUsd * FixedPoint, inputAmountUsd)
            ELSE 0
        cost == estimateFillCost(d, sim)
    IN IF cost.threw
       THEN FillThrow(cost.simulated)
       ELSE
    LET netRelayerFeeUsd == grossRelayerFeeUsd - cost.gasCostUsd
        netRelayerFeePct == netRelayerFeePctOf(netRelayerFeeUsd, outputAmountUsd)
        profitable ==
            profitableOf(inputTokenPriceUsd, outputTokenPriceUsd, netRelayerFeePct, minRelayerFeePct)
    IN [threw |-> FALSE, simulated |-> cost.simulated, profitable |-> profitable,
        netRelayerFeePct |-> netRelayerFeePct, netRelayerFeeUsd |-> netRelayerFeeUsd,
        grossRelayerFeeUsd |-> grossRelayerFeeUsd, grossRelayerFeePct |-> grossRelayerFeePct,
        totalFeePct |-> totalFeePct,
        inputTokenPriceUsd |-> inputTokenPriceUsd, outputTokenPriceUsd |-> outputTokenPriceUsd,
        inputAmountUsd |-> inputAmountUsd, outputAmountUsd |-> outputAmountUsd,
        nativeGasCost |-> cost.nativeGasCost, tokenGasCost |-> cost.tokenGasCost,
        gasPrice |-> cost.gasPrice, gasCostUsd |-> cost.gasCostUsd]

\* minRelayerFeePct: the cached fee of the route, else the configured one (which
\* the call then caches). Every modelled deposit is on the one route "route".
RouteKey == "route"

minRelayerFeePct ==
    IF RouteKey \in DOMAIN minRelayerFees THEN minRelayerFees[RouteKey] ELSE envMinFee

\* A variant without the testnet relaxation.
isFillProfitableWithoutRelaxation(fill) ==
    [profitable |-> IF fill.threw THEN FALSE ELSE fill.profitable,
     nativeGasCost |-> IF fill.threw THEN Uint256Max ELSE fill.nativeGasCost,
     tokenGasCost |-> IF fill.threw THEN Uint256Max ELSE fill.tokenGasCost,
     gasPrice |-> IF fill.threw THEN Uint256Max ELSE fill.gasPrice,
     netRelayerFeePct |-> IF fill.threw THEN 0 ELSE fill.netRelayerFeePct]

\* isFillProfitable's return value, given what getFillProfitability returned or
\* that it threw: the locals keep their initial values when it threw.
isFillProfitableResult(fill) ==
    LET profitable == IF fill.threw THEN FALSE ELSE fill.profitable
        netRelayerFeePct == IF fill.threw THEN 0 ELSE fill.netRelayerFeePct
        nativeGasCost == IF fill.threw THEN Uint256Max ELSE fill.nativeGasCost
        tokenGasCost == IF fill.threw THEN Uint256Max ELSE fill.tokenGasCost
        gasPrice == IF fill.threw THEN Uint256Max ELSE fill.gasPrice
    IN [profitable |-> profitable \/ (isTestnet /\ nativeGasCost < Uint256Max),
        nativeGasCost |-> nativeGasCost,
        tokenGasCost |-> tokenGasCost,
        gasPrice |-> gasPrice,
        netRelayerFeePct |-> netRelayerFeePct]

(***************************************************************************)
(* ProfitClient.update(): updateTokenPrices() and updateGasCosts() under   *)
(* Promise.all. Each action runs the code between two suspension points.   *)
(***************************************************************************)
\* No consumer call is returning. A call and the consumer's use of its return value
\* are one synchronous stretch of code, so no update step runs in between.
NoCall == [op |-> "none"]

\* Addresses requested from the price feed: Object.values(tokens), deduplicated.
FeedAddresses == {TokensToUpdate[s] : s \in DOMAIN TokensToUpdate}

\* Prices the feed can answer with for an address (0: the feed reports no value).
FeedPrices == {0, 1000, 2000}

\* A variant of Promise.all that does not wait for updateGasCosts().
promiseAllPricesOnly(current, pPc, gPc) ==
    IF current # "pending" THEN current
    ELSE IF pPc = "failed" THEN "rejected"
    ELSE IF pPc = "done" THEN "resolved"
    ELSE "pending"

\* Promise.all([updateTokenPrices(), updateGasCosts()]) as seen by the caller of
\* update(): it rejects as soon as updateTokenPrices rejects or a chain's callback
\* of updateGasCosts throws (a failed simulation does not: _getTotalGasCost
\* catches), and resolves when the price update and every chain's callback have
\* completed. A settled promise stays settled; the branches still running go on.
promiseAll(current, pPc, gPc) ==
    IF current # "pending" THEN current
    ELSE IF pPc = "failed" \/ \E c \in ProfitChains : gPc[c] = "failed" THEN "rejected"
    ELSE IF pPc = "done" /\ \A c \in ProfitChains : gPc[c] = "done" THEN "resolved"
    ELSE "pending"

\* The object after "tokenSymbolMap[symbol] ??= address" for every token.
PrePopulatedSymbols ==
    [s \in (DOMAIN tokenSymbolMap) \cup (DOMAIN TokensToUpdate) |->
        IF s \in DOMAIN tokenSymbolMap THEN tokenSymbolMap[s] ELSE TokensToUpdate[s]]

\* A variant that assigns bnZero to every token's address, priced or not.
PrePopulatedPricesOverwriting ==
    [a \in (DOMAIN tokenPrices) \cup FeedAddresses |->
        IF a \in FeedAddresses THEN 0 ELSE tokenPrices[a]]

\* The object after "tokenPrices[address] ??= bnZero" for every token.
PrePopulatedPrices ==
    [a \in (DOMAIN tokenPrices) \cup FeedAddresses |->
        IF a \in DOMAIN tokenPrices THEN tokenPrices[a] ELSE 0]

UpdateBranchesSettled ==
    /\ pricePc \in {"idle", "done", "failed"}
    /\ \A c \in ProfitChains : gasPc[c] \in {"idle", "done", "failed"}

\* update() is called: both updates run to their first await (the price request,
\* and one simulation per enabled chain, all in flight together). The callback of
\* a chain whose SpokePool is not configured for the test token throws at its
\* assert before it simulates.
ProfitUpdateStart(maxTicks) ==
    /\ call = NoCall
    /\ updatePc # "pending"
    /\ UpdateBranchesSettled
    /\ tick < maxTicks
    /\ tick' = tick + 1
    /\ tokenSymbolMap' = PrePopulatedSymbols
    /\ tokenPrices' = PrePopulatedPrices
    /\ pricePc' = "awaiting"
    /\ gasPc' = [c \in ProfitChains |->
                     IF c \in gasCfg.unconfiguredChains THEN "failed" ELSE "awaiting"]
    /\ updatePc' = promiseAll("pending", pricePc', gasPc')
    /\ UNCHANGED <<inventoryVars, refundVars, rebalanceVars, bridgeVars, callerVars, withdrawVars,
                   unwrapVars>>
    /\ UNCHANGED <<isTestnet, gasCfg, envMinFee, minRelayerFees, totalGasCosts,
                   priceTick, gasTick, gasSim, call>>

\* The price request returns: every returned price is stored.
PriceFeedReturns ==
    /\ call = NoCall
    /\ pricePc = "awaiting"
    /\ \E prices \in [FeedAddresses -> FeedPrices] :
          tokenPrices' = [a \in DOMAIN tokenPrices |->
                             IF a \in FeedAddresses THEN prices[a] ELSE tokenPrices[a]]
    /\ priceTick' = tick
    /\ pricePc' = "done"
    /\ updatePc' = promiseAll(updatePc, pricePc', gasPc)
    /\ UNCHANGED <<inventoryVars, refundVars, rebalanceVars, bridgeVars, callerVars, withdrawVars,
                   unwrapVars>>
    /\ UNCHANGED <<isTestnet, gasCfg, envMinFee, minRelayerFees, tokenSymbolMap,
                   totalGasCosts, tick, gasPc, gasTick, gasSim, call>>

\* The price request throws: the last known prices are logged and the update
\* rejects; nothing is written.
PriceFeedFails ==
    /\ call = NoCall
    /\ pricePc = "awaiting"
    /\ pricePc' = "failed"
    /\ updatePc' = promiseAll(updatePc, pricePc', gasPc)
    /\ UNCHANGED <<inventoryVars, refundVars, rebalanceVars, bridgeVars, callerVars, withdrawVars,
                   unwrapVars>>
    /\ UNCHANGED <<isTestnet, gasCfg, envMinFee, minRelayerFees, tokenSymbolMap, tokenPrices,
                   totalGasCosts, tick, gasPc, priceTick, gasTick, gasSim, call>>

\* The template simulation of chain c settles: its result (the uint256Max triple
\* when it failed) becomes the chain's cached cost.
GasSimReturns(c) ==
    /\ call = NoCall
    /\ gasPc[c] = "awaiting"
    /\ \E sim \in {"ok", "fail"} :
          /\ totalGasCosts' = Put(totalGasCosts, c, getTotalGasCostUncached(sim))
          /\ gasSim' = [gasSim EXCEPT ![c] = sim]
    /\ gasTick' = [gasTick EXCEPT ![c] = tick]
    /\ gasPc' = [gasPc EXCEPT ![c] = "done"]
    /\ updatePc' = promiseAll(updatePc, pricePc, gasPc')
    /\ UNCHANGED <<inventoryVars, refundVars, rebalanceVars, bridgeVars, callerVars, withdrawVars,
                   unwrapVars>>
    /\ UNCHANGED <<isTestnet, gasCfg, envMinFee, minRelayerFees, tokenSymbolMap, tokenPrices,
                   tick, pricePc, priceTick, call>>

(***************************************************************************)
(* ProfitClient: consumer calls. A call reads the caches in one step: the  *)
(* only await of isFillProfitable is the simulation, after which no cache  *)
(* is read. The variable call holds the call and the value it returned     *)
(* until the consumer has taken it.                                        *)
(***************************************************************************)
\* Deposits offered to isFillProfitable, as (symbol, amount) pairs after
\* hubPoolClient.getTokenInfoForAddress resolved the tokens.
ProfitDeposits ==
    [inputSymbol : {"USDC", "XYZ"},
     outputSymbol : {"USDC", "WETH"},
     inputAmount : {0, 1000},
     outputAmount : {0, 990},
     hasUpdatedOutputAmount : BOOLEAN,
     updatedOutputAmount : {0},
     messageEmpty : BOOLEAN,
     destinationChainId : {2}]

LpFeePcts == {1}
MinFees == {0, 6}
\* Gas padding and multipliers, and the enabled chains whose SpokePool is not
\* configured for the test token of updateGasCosts.
DefaultGasCfg ==
    [gasPadding |-> 1000, gasMultiplier |-> 1000, gasMessageMultiplier |-> 2000,
     unconfiguredChains |-> {},
     simCost |-> [nativeGasCost |-> 100, tokenGasCost |-> 20, gasPrice |-> 2]]
GasCfgs == {[DefaultGasCfg EXCEPT !.unconfiguredChains = u] : u \in {{}, {2}}}

\* The paddings and multipliers the constructor admits (1.0 to 3.0 after the
\* constructor added 1; 0 to 4), with simulated costs that do and do not divide.
ScalingCfgs ==
    {[gasPadding |-> p, gasMultiplier |-> m, gasMessageMultiplier |-> mm,
      unconfiguredChains |-> {},
      simCost |-> [nativeGasCost |-> n, tokenGasCost |-> t, gasPrice |-> 2]] :
        p \in {1000, 1500, 3000}, m \in {0, 1000, 4000}, mm \in {2000},
        n \in {1, 100}, t \in {1, 3, 20}}

\* Deposits offered to estimateFillCost: with and without a message.
GasDeposits ==
    {d \in ProfitDeposits :
        /\ d.inputSymbol = "USDC" /\ d.outputSymbol = "USDC"
        /\ d.inputAmount = 1000 /\ d.outputAmount = 990
        /\ ~d.hasUpdatedOutputAmount}

\* estimateFillCost, called on its own. The call keeps the raw cost it obtained.
CallEstimateFillCost ==
    /\ call = NoCall
    /\ \E d \in GasDeposits, sim \in {"ok", "fail"} :
          call' = [op |-> "estimateFillCost", deposit |-> d,
                   raw |-> getTotalGasCost(d, sim),
                   result |-> estimateFillCost(d, sim)]
    /\ UNCHANGED <<inventoryVars, refundVars, rebalanceVars, bridgeVars, callerVars, withdrawVars,
                   unwrapVars>>
    /\ UNCHANGED <<isTestnet, gasCfg, envMinFee, minRelayerFees, tokenSymbolMap, tokenPrices,
                   totalGasCosts, tick, updatePc, pricePc, gasPc, priceTick, gasTick, gasSim>>

CallGetPriceOfToken ==
    /\ call = NoCall
    /\ \E token \in Symbols \cup Addresses :
          call' = [op |-> "getPriceOfToken", token |-> token, result |-> getPriceOfToken(token)]
    /\ UNCHANGED <<inventoryVars, refundVars, rebalanceVars, bridgeVars, callerVars, withdrawVars,
                   unwrapVars>>
    /\ UNCHANGED <<isTestnet, gasCfg, envMinFee, minRelayerFees, tokenSymbolMap, tokenPrices,
                   totalGasCosts, tick, updatePc, pricePc, gasPc, priceTick, gasTick, gasSim>>

\* isFillProfitable -> getFillProfitability -> calculateFillProfitability.
CallIsFillProfitable ==
    /\ call = NoCall
    /\ \E d \in ProfitDeposits, lpFeePct \in LpFeePcts, sim \in {"ok", "fail"} :
          LET minFee == minRelayerFeePct
              fill == calculateFillProfitability(d, lpFeePct, minFee, sim)
          IN /\ minRelayerFees' = Put(minRelayerFees, RouteKey, minFee)
             /\ call' = [op |-> "isFillProfitable",
                         deposit |-> d,
                         lpFeePct |-> lpFeePct,
                         minRelayerFeePct |-> minFee,
                         sim |-> IF fill.simulated THEN sim ELSE "none",
                         fill |-> fill,
                         result |-> isFillProfitableResult(fill)]
    /\ UNCHANGED <<inventoryVars, refundVars, rebalanceVars, bridgeVars, callerVars, withdrawVars,
                   unwrapVars>>
    /\ UNCHANGED <<isTestnet, gasCfg, envMinFee, tokenSymbolMap, tokenPrices,
                   totalGasCosts, tick, updatePc, pricePc, gasPc, priceTick, gasTick, gasSim>>

\* The consumer has taken the value the last call returned.
CallResultConsumed ==
    /\ call # NoCall
    /\ call' = NoCall
    /\ UNCHANGED <<inventoryVars, refundVars, rebalanceVars, bridgeVars, callerVars, withdrawVars,
                   unwrapVars>>
    /\ UNCHANGED <<isTestnet, gasCfg, envMinFee, minRelayerFees, tokenSymbolMap, tokenPrices,
                   totalGasCosts, tick, updatePc, pricePc, gasPc, priceTick, gasTick, gasSim>>

ProfitInit ==
    /\ isTestnet \in BOOLEAN
    /\ gasCfg \in GasCfgs
    /\ envMinFee \in MinFees
    /\ minRelayerFees = EmptyMap
    /\ tokenSymbolMap = EmptyMap
    /\ tokenPrices = EmptyMap
    /\ totalGasCosts = EmptyMap
    /\ tick = 0
    /\ updatePc = "idle"
    /\ pricePc = "idle"
    /\ gasPc = [c \in ProfitChains |-> "idle"]
    /\ priceTick = 0
    /\ gasTick = [c \in ProfitChains |-> 0]
    /\ gasSim = [c \in ProfitChains |-> "none"]
    /\ call = NoCall

\* The state of a ProfitClient nothing calls.
ProfitIdle ==
    /\ isTestnet = FALSE
    /\ gasCfg = DefaultGasCfg
    /\ envMinFee = 0
    /\ minRelayerFees = EmptyMap
    /\ tokenSymbolMap = EmptyMap
    /\ tokenPrices = EmptyMap
    /\ totalGasCosts = EmptyMap
    /\ tick = 0
    /\ updatePc = "idle"
    /\ pricePc = "idle"
    /\ gasPc = [c \in ProfitChains |-> "idle"]
    /\ priceTick = 0
    /\ gasTick = [c \in ProfitChains |-> 0]
    /\ gasSim = [c \in ProfitChains |-> "none"]
    /\ call = NoCall

(***************************************************************************)
(* InventoryClient: chains, tokens, configuration                          *)
(***************************************************************************)
\* hubPoolClient.chainId and this.chainIdList (the enabled chains, in order).
HubChain == 1
ChainIdList == <<1, 2, 3, 4, 5>>
Chains == {ChainIdList[i] : i \in DOMAIN ChainIdList}

\* SLOW_WITHDRAWAL_CHAINS, in the order of the constant.
SlowWithdrawalChains == <<2, 3>>

\* Chains inventory can be moved out of quickly besides the hub.
QuickRebalanceChains == {4}

\* The one L1 token of the model, its canonical token on every chain (the hub
\* token on the hub), and a second token of a chain that maps to the same L1
\* token (as bridged USDC does).
L1Token == "T"
CanonicalToken == "T"
BridgedToken == "Te"
L2Tokens == {CanonicalToken, BridgedToken}

\* An absent optional argument or value.
Undefined == "undefined"

\* Token decimals: the L1 token has L1TokenDecimals; the tokens of chain 3 carry
\* one decimal more.
L1TokenDecimals == 2
TokenDecimalsOn(chainId) == IF chainId = 3 THEN L1TokenDecimals + 1 ELSE L1TokenDecimals

\* sdkUtils.ConvertDecimals(from, to)(amount)
ConvertDecimals(from, to, amount) ==
    IF from > to
    THEN BNDiv(amount, Pow10(from - to))
    ELSE amount * Pow10(to - from)

\* Sum of f over the elements of a sequence.
RECURSIVE SumSeq(_, _)
SumSeq(f, seq) ==
    IF seq = <<>> THEN 0 ELSE f[Head(seq)] + SumSeq(f, Tail(seq))

\* Sum of a function's values over a finite set of its keys.
RECURSIVE SumOver(_, _)
SumOver(f, keys) ==
    IF keys = {} THEN 0
    ELSE LET k == CHOOSE x \in keys : TRUE IN f[k] + SumOver(f, keys \ {k})

SeqToSet(seq) == {seq[i] : i \in DOMAIN seq}

\* array.includes(x) / pushing x unless it is there already
Includes(seq, x) == x \in SeqToSet(seq)

RECURSIVE FilterSeq(_, _)
FilterSeq(seq, keep) ==
    IF seq = <<>> THEN <<>>
    ELSE IF Head(seq) \in keep
         THEN <<Head(seq)>> \o FilterSeq(Tail(seq), keep)
         ELSE FilterSeq(Tail(seq), keep)

\* isAliasConfig(tokenConfig): the configuration is keyed by L2 token, then chain.
isAliasConfig(config) == config.alias

NoTokenConfig == [defined |-> FALSE]

\* getTokenConfig
getTokenConfig(l1Token, chainId, l2Token) ==
    IF l1Token \notin DOMAIN tokenConfig
    THEN NoTokenConfig
    ELSE LET config == tokenConfig[l1Token]
         IN IF isAliasConfig(config)
            THEN IF l2Token \in DOMAIN config.tokens /\ chainId \in DOMAIN config.tokens[l2Token]
                 THEN config.tokens[l2Token][chainId]
                 ELSE NoTokenConfig
            ELSE IF chainId \in DOMAIN config.chains
                 THEN config.chains[chainId]
                 ELSE NoTokenConfig

\* isInventoryManagementEnabled: tokenConfig is there and has at least one key.
isInventoryManagementEnabled == DOMAIN tokenConfig # {}

\* _l1TokenEnabledForChain
l1TokenEnabledForChain(l1Token, chainId) ==
    IF l1Token \notin DOMAIN tokenConfig
    THEN FALSE
    ELSE LET config == tokenConfig[l1Token]
         IN IF ~isAliasConfig(config)
            THEN chainId \in DOMAIN config.chains
            ELSE \E symbol \in DOMAIN config.tokens : chainId \in DOMAIN config.tokens[symbol]

\* getRemoteTokenForL1Token: the L1 token itself on the hub, else the canonical
\* token of the chain.
getRemoteTokenForL1Token(l1Token, chainId) ==
    IF chainId = HubChain THEN l1Token ELSE CanonicalToken

\* getRemoteTokensForL1Token, as a sequence in the order of the configuration's keys.
getRemoteTokensForL1Token(l1Token, chainId) ==
    IF chainId = HubChain THEN <<l1Token>>
    ELSE IF l1Token \notin DOMAIN tokenConfig THEN <<>>
    ELSE LET config == tokenConfig[l1Token]
         IN IF isAliasConfig(config)
            THEN FilterSeq(<<CanonicalToken, BridgedToken>>,
                           {k \in DOMAIN config.tokens : chainId \in DOMAIN config.tokens[k]})
            ELSE <<getRemoteTokenForL1Token(l1Token, chainId)>>

getEnabledChains == ChainIdList

getEnabledL2Chains == FilterSeq(ChainIdList, Chains \ {HubChain})

(***************************************************************************)
(* InventoryClient: virtual balances and allocations                       *)
(***************************************************************************)
\* crossChainTransferClient.getOutstandingCrossChainTransferAmount: of one L2
\* token, or of every L2 token of the chain when none is given.
getOutstandingCrossChainTransferAmount(chainId, l2Token) ==
    IF l2Token = Undefined
    THEN SumOver([t \in L2Tokens |-> outstandingTransfers[<<chainId, t>>]], L2Tokens)
    ELSE outstandingTransfers[<<chainId, l2Token>>]

\* tokenClient.getBalance converted to the L1 token's decimals.
BalanceInL1Decimals(chainId, l2Token) ==
    ConvertDecimals(TokenDecimalsOn(chainId), L1TokenDecimals, tokenBalances[<<chainId, l2Token>>])

\* getBalanceOnChain
getBalanceOnChain(chainId, l1Token, l2Token) ==
    IF l2Token # Undefined
    THEN BalanceInL1Decimals(chainId, l2Token)
            + getOutstandingCrossChainTransferAmount(chainId, l2Token)
    ELSE LET l2Tokens == getRemoteTokensForL1Token(l1Token, chainId)
             balance == SumSeq([t \in L2Tokens |-> BalanceInL1Decimals(chainId, t)], l2Tokens)
         IN balance + getOutstandingCrossChainTransferAmount(chainId, Undefined)

\* getCumulativeBalance
getCumulativeBalance(l1Token) ==
    SumSeq([c \in Chains |-> getBalanceOnChain(c, l1Token, Undefined)], getEnabledChains)

\* tokenClient.getShortfallTotalRequirement converted to the L1 token's decimals.
ShortfallInL1Decimals(chainId, l2Token) ==
    ConvertDecimals(TokenDecimalsOn(chainId), L1TokenDecimals, tokenShortfalls[<<chainId, l2Token>>])

\* A variant that leaves the shortfall out of the chain's balance.
getCurrentAllocationPctIgnoringShortfall(l1Token, chainId, l2Token) ==
    LET cumulativeBalance == getCumulativeBalance(l1Token)
    IN IF cumulativeBalance = 0
       THEN 0
       ELSE BNDiv(getBalanceOnChain(chainId, l1Token, l2Token) * FixedPoint, cumulativeBalance)

\* getCurrentAllocationPct
getCurrentAllocationPct(l1Token, chainId, l2Token) ==
    LET cumulativeBalance == getCumulativeBalance(l1Token)
    IN IF cumulativeBalance = 0
       THEN 0
       ELSE LET shortfall == ShortfallInL1Decimals(chainId, l2Token)
                currentBalance == getBalanceOnChain(chainId, l1Token, l2Token) - shortfall
            IN BNDiv(currentBalance * FixedPoint, cumulativeBalance)

\* A variant that does not record the pending inbound transfer.
trackWithoutOutstanding(l1Token, l2Token, rebalance, chainId) ==
    [balances |-> [tokenBalances EXCEPT ![<<HubChain, l1Token>>] = @ - rebalance],
     outstanding |-> outstandingTransfers]

\* A variant that does not decrement the local hub balance.
trackWithoutDecrement(l1Token, l2Token, rebalance, chainId) ==
    [balances |-> tokenBalances,
     outstanding |-> [outstandingTransfers EXCEPT ![<<chainId, l2Token>>] = @ + rebalance]]

\* trackCrossChainTransfer: tokenClient.decrementLocalBalance on the hub and
\* crossChainTransferClient.increaseOutstandingTransfer, as the two new maps.
trackCrossChainTransfer(l1Token, l2Token, rebalance, chainId) ==
    [balances |-> [tokenBalances EXCEPT ![<<HubChain, l1Token>>] = @ - rebalance],
     outstanding |-> [outstandingTransfers EXCEPT ![<<chainId, l2Token>>] = @ + rebalance]]

(***************************************************************************)
(* InventoryClient: repayment chain selection                              *)
(***************************************************************************)
\* depositForcesOriginChainRepayment: a deposit from a lite chain, or one the
\* hub pool allows no other repayment chain for.
depositForcesOriginChainRepayment(d) == d.fromLiteChain \/ d.originRepaymentOnly

\* repaymentChainCanBeQuicklyRebalanced: the origin is the hub or a chain served
\* by a fast external on/off-ramp.
repaymentChainCanBeQuicklyRebalanced(d) ==
    d.originChainId = HubChain \/ d.originChainId \in QuickRebalanceChains

\* sdkUtils.invalidOutputToken
invalidOutputToken(d) == d.outputTokenInvalid

\* hubPoolClient.l2TokenHasPoolRebalanceRoute for the chain's canonical token, and
\* hubPoolClient.l2TokenEnabledForL1Token(AtBlock) for the L1 token.
l2TokenHasPoolRebalanceRoute(chainId) == chainId \in poolRebalanceRoutes
l2TokenEnabledForL1Token(chainId) == chainId \in poolRebalanceRoutes

\* validateOutputToken: equivalent by pool rebalance routes, or mapped to the same
\* L1 token by the token map (a token missing from the map gives false).
validateOutputToken(d) == d.tokensEquivalent \/ d.outputMapsToInputL1Token

\* A variant that does not ask whether the deposit forces origin repayment.
canTakeDestinationChainRepaymentUnforced(d) ==
    /\ l2TokenHasPoolRebalanceRoute(d.originChainId)
    /\ l2TokenEnabledForL1Token(d.destinationChainId)

\* canTakeDestinationChainRepayment
canTakeDestinationChainRepayment(d) ==
    IF depositForcesOriginChainRepayment(d) THEN FALSE
    ELSE IF ~l2TokenHasPoolRebalanceRoute(d.originChainId) THEN FALSE
    ELSE l2TokenEnabledForL1Token(d.destinationChainId)

\* getSlowWithdrawalRepaymentChains
getSlowWithdrawalRepaymentChains(l1Token) ==
    FilterSeq(SlowWithdrawalChains,
              {c \in Chains : l1TokenEnabledForChain(l1Token, c) /\ l2TokenEnabledForL1Token(c)})

\* Set.add followed by [...set]: the elements in insertion order, each once.
AddToSet(seq, x) == IF Includes(seq, x) THEN seq ELSE Append(seq, x)

RECURSIVE AddAllToSet(_, _)
AddAllToSet(seq, more) ==
    IF more = <<>> THEN seq ELSE AddAllToSet(AddToSet(seq, Head(more)), Tail(more))

\* A variant that leaves the hub out.
getPossibleRepaymentChainIdsWithoutHub(d) ==
    IF depositForcesOriginChainRepayment(d) THEN <<d.originChainId>>
    ELSE IF canTakeDestinationChainRepayment(d)
    THEN AddToSet(<<d.originChainId>>, d.destinationChainId)
    ELSE <<d.originChainId>>

\* getPossibleRepaymentChainIds
getPossibleRepaymentChainIds(d) ==
    LET withOrigin == <<d.originChainId>>
    IN IF depositForcesOriginChainRepayment(d)
       THEN withOrigin
       ELSE LET withDestination ==
                    IF canTakeDestinationChainRepayment(d)
                    THEN AddToSet(withOrigin, d.destinationChainId)
                    ELSE withOrigin
                withSlow ==
                    IF isInventoryManagementEnabled
                    THEN AddAllToSet(withDestination,
                                     FilterSeq(getSlowWithdrawalRepaymentChains(L1Token),
                                               {c \in Chains : l2TokenEnabledForL1Token(c)}))
                    ELSE withDestination
            IN AddToSet(withSlow, HubChain)

\* getBundleRefunds: the relayer's refund on every enabled chain, in the L1
\* token's decimals.
getBundleRefunds(l1Token) ==
    [c \in Chains |-> ConvertDecimals(TokenDecimalsOn(c), L1TokenDecimals, upcomingRefunds[c])]

\* _getLatestRunningBalances: per chain to evaluate the absolute value of a negative
\* latest running balance, 0 for a positive one.
getLatestRunningBalances(l1Token, chainsToEvaluate) ==
    [c \in SeqToSet(chainsToEvaluate) |->
        IF runningBalances[c] < 0 THEN -runningBalances[c] ELSE 0]

\* A variant that compares the target with the excess before the relay.
excessRunningBalancePctIgnoringRefund(excess, target, refundAmountInL1TokenDecimals) ==
    IF target >= excess THEN 0
    ELSE IF target = 0 THEN Uint256Max
    ELSE BNDiv((excess - target) * FixedPoint, IF target < 0 THEN -target ELSE target)

\* The excess percentage of one chain in _getExcessRunningBalancePcts.
excessRunningBalancePct(excess, target, refundAmountInL1TokenDecimals) ==
    LET excessPostRelay == excess - refundAmountInL1TokenDecimals
    IN IF target >= excessPostRelay THEN 0
       ELSE IF target = 0 THEN Uint256Max
       ELSE BNDiv((excessPostRelay - target) * FixedPoint, IF target < 0 THEN -target ELSE target)

\* _getExcessRunningBalancePcts
getExcessRunningBalancePcts(excessRunningBalances, l1Token, refundAmountInL1TokenDecimals) ==
    [c \in DOMAIN excessRunningBalances |->
        excessRunningBalancePct(excessRunningBalances[c], spokeTargets[c],
                                refundAmountInL1TokenDecimals)]

\* A variant that sorts by ascending percentage.
RECURSIVE SortByPctAscending(_, _)
SortByPctAscending(pcts, chains) ==
    IF chains = {} THEN <<>>
    ELSE LET first == CHOOSE c \in chains :
                          \A o \in chains : pcts[c] < pcts[o] \/ (pcts[c] = pcts[o] /\ c <= o)
         IN <<first>> \o SortByPctAscending(pcts, chains \ {first})

\* Object.entries(pcts).filter(pct > 0).sort(descending).map(chainId): the entries
\* come in ascending chain order and the sort is stable.
RECURSIVE SortByPctDescending(_, _)
SortByPctDescending(pcts, chains) ==
    IF chains = {} THEN <<>>
    ELSE LET first == CHOOSE c \in chains :
                          \A o \in chains : pcts[c] > pcts[o] \/ (pcts[c] = pcts[o] /\ c <= o)
         IN <<first>> \o SortByPctDescending(pcts, chains \ {first})

chainsWithExcessSpokeBalances(pcts) ==
    SortByPctDescending(pcts, {c \in DOMAIN pcts : pcts[c] > 0})

\* The deposit's input amount in the L1 token's decimals.
inputAmountInL1TokenDecimals(d) ==
    ConvertDecimals(TokenDecimalsOn(d.originChainId), L1TokenDecimals, d.inputAmount)

\* A variant that pushes origin and destination without looking whether the list
\* has them.
chainsToEvaluateWithoutIncludes(d, withExcess) ==
    LET l1Token == L1Token
        afterLite ==
            IF d.toLiteChain /\ l1TokenEnabledForChain(l1Token, d.originChainId)
            THEN Append(withExcess, d.originChainId)
            ELSE withExcess
        afterDestination ==
            IF /\ canTakeDestinationChainRepayment(d)
               /\ l1TokenEnabledForChain(l1Token, d.destinationChainId)
            THEN Append(afterLite, d.destinationChainId)
            ELSE afterLite
    IN IF d.originChainId # HubChain /\ l1TokenEnabledForChain(l1Token, d.originChainId)
       THEN Append(afterDestination, d.originChainId)
       ELSE afterDestination

\* The list of chains to evaluate, built after the slow-withdrawal chains with
\* excess: the origin first for a deposit to a lite chain, then the destination,
\* then the origin.
chainsToEvaluateFor(d, withExcess) ==
    LET l1Token == L1Token
        afterLite ==
            IF /\ d.toLiteChain
               /\ ~Includes(withExcess, d.originChainId)
               /\ l1TokenEnabledForChain(l1Token, d.originChainId)
            THEN Append(withExcess, d.originChainId)
            ELSE withExcess
        afterDestination ==
            IF /\ canTakeDestinationChainRepayment(d)
               /\ ~Includes(afterLite, d.destinationChainId)
               /\ l1TokenEnabledForChain(l1Token, d.destinationChainId)
            THEN Append(afterLite, d.destinationChainId)
            ELSE afterLite
    IN IF /\ ~Includes(afterDestination, d.originChainId)
          /\ d.originChainId # HubChain
          /\ l1TokenEnabledForChain(l1Token, d.originChainId)
       THEN Append(afterDestination, d.originChainId)
       ELSE afterDestination

DEFAULT_TOKEN_OVERAGE == 1500

\* A variant that applies the overage buffer to every chain.
effectiveTargetPctWithOverage(d, chainId, config) ==
    BNDiv(config.targetPct * (IF config.hasOverageBuffer THEN config.targetOverageBuffer
                              ELSE DEFAULT_TOKEN_OVERAGE),
          FixedPoint)

\* The target a chain's expected allocation is compared with: the plain target
\* for the destination of a deposit to a lite chain, else the target times the
\* overage buffer.
effectiveTargetPct(d, chainId, config) ==
    LET targetOverageBuffer ==
            IF config.hasOverageBuffer THEN config.targetOverageBuffer ELSE DEFAULT_TOKEN_OVERAGE
    IN IF d.toLiteChain /\ chainId = d.destinationChainId
       THEN config.targetPct
       ELSE BNDiv(config.targetPct * targetOverageBuffer, FixedPoint)

\* The numerator of a chain's expected post-relay allocation.
chainVirtualBalanceWithShortfallPostRelay(d, chainId, locals) ==
    LET repaymentToken == getRemoteTokenForL1Token(L1Token, chainId)
        chainShortfall == ShortfallInL1Decimals(chainId, repaymentToken)
        chainVirtualBalance == getBalanceOnChain(chainId, L1Token, repaymentToken)
        chainVirtualBalanceWithShortfall == chainVirtualBalance - chainShortfall
        postRelay ==
            IF chainId = d.destinationChainId /\ d.tokensEquivalent
            THEN chainVirtualBalanceWithShortfall
            ELSE chainVirtualBalanceWithShortfall + inputAmountInL1TokenDecimals(d)
    IN postRelay + locals.totalRefundsPerChain[chainId]

\* One iteration of the loop over chainsToEvaluate: "throw" when an assertion or
\* the division fails, "push" when the chain becomes eligible, else "skip".
evaluateChain(d, chainId, locals) ==
    LET cumulativeVirtualBalancePostRefunds ==
            locals.cumulativeVirtualBalance + locals.cumulativeRefunds
        repaymentToken == getRemoteTokenForL1Token(L1Token, chainId)
        config == getTokenConfig(L1Token, chainId, repaymentToken)
    IN IF ~l1TokenEnabledForChain(L1Token, chainId) THEN "throw"
       ELSE IF chainId # d.originChainId /\ ~l2TokenHasPoolRebalanceRoute(chainId) THEN "throw"
       ELSE IF cumulativeVirtualBalancePostRefunds = 0 THEN "throw"
       ELSE LET expectedPostRelayAllocation ==
                    BNDiv(chainVirtualBalanceWithShortfallPostRelay(d, chainId, locals) * FixedPoint,
                          cumulativeVirtualBalancePostRefunds)
            IN IF ~config.defined
               THEN IF chainId = d.destinationChainId THEN "push" ELSE "skip"
               ELSE IF expectedPostRelayAllocation <= effectiveTargetPct(d, chainId, config)
                    THEN "push"
                    ELSE "skip"

\* The loop over chainsToEvaluate: the eligible chains so far, or that it threw.
RECURSIVE evaluateChains(_, _, _, _)
evaluateChains(d, chains, locals, eligibleRefundChains) ==
    IF chains = <<>>
    THEN [threw |-> FALSE, chains |-> eligibleRefundChains]
    ELSE LET outcome == evaluateChain(d, Head(chains), locals)
         IN IF outcome = "throw"
            THEN [threw |-> TRUE, chains |-> <<>>]
            ELSE evaluateChains(d, Tail(chains), locals,
                                IF outcome = "push"
                                THEN Append(eligibleRefundChains, Head(chains))
                                ELSE eligibleRefundChains)

Returned(chains) == [threw |-> FALSE, chains |-> chains]
Threw == [threw |-> TRUE, chains |-> <<>>]

\* A variant of the selector's last part that appends the hub for every deposit.
selectRefundChainsAlwaysWithHub(d, withExcess, locals) ==
    LET evaluated == evaluateChains(d, chainsToEvaluateFor(d, withExcess), locals, <<>>)
    IN IF evaluated.threw THEN Threw ELSE Returned(AddToSet(evaluated.chains, HubChain))

\* A variant of the selector's last part without the hub fallback.
selectRefundChainsWithoutHubFallback(d, withExcess, locals) ==
    LET evaluated == evaluateChains(d, chainsToEvaluateFor(d, withExcess), locals, <<>>)
    IN IF evaluated.threw THEN Threw
       ELSE IF /\ depositForcesOriginChainRepayment(d)
               /\ evaluated.chains # <<d.originChainId>>
            THEN Returned(<<>>)
            ELSE Returned(evaluated.chains)

\* determineRefundChainId from the construction of chainsToEvaluate on: the
\* sanity check against getPossibleRepaymentChainIds, the loop, the lite-chain
\* enforcement and the hub fallback.
selectRefundChains(d, withExcess, locals) ==
    LET chainsToEvaluate == chainsToEvaluateFor(d, withExcess)
        possibleRepaymentChainIds == getPossibleRepaymentChainIds(d)
        forceOriginRepayment == depositForcesOriginChainRepayment(d)
    IN IF \E c \in SeqToSet(chainsToEvaluate) : ~Includes(possibleRepaymentChainIds, c)
       THEN Threw
       ELSE LET evaluated == evaluateChains(d, chainsToEvaluate, locals, <<>>)
                eligibleRefundChains == evaluated.chains
            IN IF evaluated.threw THEN Threw
               ELSE IF /\ forceOriginRepayment
                       /\ \/ Len(eligibleRefundChains) # 1
                          \/ ~Includes(eligibleRefundChains, d.originChainId)
                    THEN Returned(<<>>)
               ELSE IF ~forceOriginRepayment /\ ~Includes(eligibleRefundChains, HubChain)
                    THEN Returned(Append(eligibleRefundChains, HubChain))
                    ELSE Returned(eligibleRefundChains)

NoLocals ==
    [totalRefundsPerChain |-> [c \in Chains |-> 0], cumulativeRefunds |-> 0,
     cumulativeVirtualBalance |-> 0]

NoResult == [threw |-> FALSE, chains |-> <<>>]

\* determineRefundChainId up to its first await: the early returns, the throw for
\* an unsupported output token, else getBundleRefunds, which stores the promise of
\* getAllBundleRefunds unless one is stored, and awaits it.
DetermineRefundChainIdStarts ==
    /\ refundPc = "idle"
    /\ LET d == deposit
       IN IF invalidOutputToken(d)
          THEN /\ refundResult' = Returned(<<>>)
               /\ refundPc' = "returned"
               /\ UNCHANGED <<logDisabledManagement, bundleRefundsPromise>>
          ELSE IF ~isInventoryManagementEnabled
          THEN /\ logDisabledManagement' = TRUE
               /\ refundResult' = Returned(<<IF ~canTakeDestinationChainRepayment(d)
                                             THEN d.originChainId
                                             ELSE d.destinationChainId>>)
               /\ refundPc' = "returned"
               /\ UNCHANGED bundleRefundsPromise
          ELSE IF ~validateOutputToken(d)
          THEN /\ refundResult' = Threw
               /\ refundPc' = "threw"
               /\ UNCHANGED <<logDisabledManagement, bundleRefundsPromise>>
          ELSE IF depositForcesOriginChainRepayment(d) /\ repaymentChainCanBeQuicklyRebalanced(d)
          THEN /\ refundResult' = Returned(<<d.originChainId>>)
               /\ refundPc' = "returned"
               /\ UNCHANGED <<logDisabledManagement, bundleRefundsPromise>>
          ELSE /\ bundleRefundsPromise' =
                      IF bundleRefundsPromise = Undefined THEN "pending" ELSE bundleRefundsPromise
               /\ refundPc' = "awaitBundleRefunds"
               /\ UNCHANGED <<logDisabledManagement, refundResult>>
    /\ UNCHANGED <<tokenConfig, prioritizeLpUtilization, tokenBalances, tokenShortfalls,
                   outstandingTransfers, poolRebalanceRoutes, upcomingRefunds, runningBalances,
                   spokeTargets, excessRunningBalancePromises, deposit, refundLocals>>
    /\ UNCHANGED <<profitVars, rebalanceVars, bridgeVars, callerVars, withdrawVars,
                   unwrapVars>>

\* The bundle refunds arrive: the refunds per chain and the cumulative balance are
\* computed; then either getExcessRunningBalancePcts stores the promise of
\* _getLatestRunningBalances (unless one is stored) and awaits it, or the call
\* runs to its end.
BundleRefundsArrive ==
    /\ refundPc = "awaitBundleRefunds"
    /\ bundleRefundsPromise' = "resolved"
    /\ LET d == deposit
           totalRefundsPerChain == getBundleRefunds(L1Token)
           locals == [totalRefundsPerChain |-> totalRefundsPerChain,
                      cumulativeRefunds |-> SumOver(totalRefundsPerChain, Chains),
                      cumulativeVirtualBalance |-> getCumulativeBalance(L1Token)]
       IN /\ refundLocals' = locals
          /\ IF ~depositForcesOriginChainRepayment(d) /\ prioritizeLpUtilization
             THEN /\ excessRunningBalancePromises' =
                         IF L1Token \in DOMAIN excessRunningBalancePromises
                         THEN excessRunningBalancePromises
                         ELSE Put(excessRunningBalancePromises, L1Token,
                                  [state |-> "pending",
                                   value |-> getLatestRunningBalances(
                                                 L1Token, getSlowWithdrawalRepaymentChains(L1Token))])
                  /\ refundPc' = "awaitExcessRunningBalances"
                  /\ UNCHANGED refundResult
             ELSE /\ refundResult' = selectRefundChains(d, <<>>, locals)
                  /\ refundPc' = IF refundResult'.threw THEN "threw" ELSE "returned"
                  /\ UNCHANGED excessRunningBalancePromises
    /\ UNCHANGED <<tokenConfig, prioritizeLpUtilization, logDisabledManagement, tokenBalances,
                   tokenShortfalls, outstandingTransfers, poolRebalanceRoutes, upcomingRefunds,
                   runningBalances, spokeTargets, deposit>>
    /\ UNCHANGED <<profitVars, rebalanceVars, bridgeVars, callerVars, withdrawVars,
                   unwrapVars>>

\* The running balances arrive: the excess percentages are computed for this
\* deposit's amount and the call runs to its end.
ExcessRunningBalancesArrive ==
    /\ refundPc = "awaitExcessRunningBalances"
    /\ LET d == deposit
           promise == excessRunningBalancePromises[L1Token]
           excessRunningBalancePcts ==
               getExcessRunningBalancePcts(promise.value, L1Token, inputAmountInL1TokenDecimals(d))
       IN /\ excessRunningBalancePromises' =
                 [excessRunningBalancePromises EXCEPT ![L1Token].state = "resolved"]
          /\ refundResult' =
                 selectRefundChains(d, chainsWithExcessSpokeBalances(excessRunningBalancePcts),
                                    refundLocals)
          /\ refundPc' = IF refundResult'.threw THEN "threw" ELSE "returned"
    /\ UNCHANGED <<tokenConfig, prioritizeLpUtilization, logDisabledManagement, tokenBalances,
                   tokenShortfalls, outstandingTransfers, poolRebalanceRoutes, upcomingRefunds,
                   runningBalances, spokeTargets, bundleRefundsPromise, deposit, refundLocals>>
    /\ UNCHANGED <<profitVars, rebalanceVars, bridgeVars, callerVars, withdrawVars,
                   unwrapVars>>

(***************************************************************************)
(* InventoryClient: the L1->L2 rebalance pass                              *)
(***************************************************************************)
RECURSIVE ConcatMap(_, _)
ConcatMap(f, seq) ==
    IF seq = <<>> THEN <<>> ELSE f[Head(seq)] \o ConcatMap(f, Tail(seq))

\* The plan getPossibleRebalances pushes for (chain, L2 token), if any.
rebalanceRequiredFor(l1Token, chainId, l2Token, cumulativeBalance) ==
    LET currentAllocPct == getCurrentAllocationPct(l1Token, chainId, l2Token)
        config == getTokenConfig(l1Token, chainId, l2Token)
    IN IF ~config.defined THEN <<>>
       ELSE IF currentAllocPct >= config.thresholdPct THEN <<>>
       ELSE LET deltaPct == config.targetPct - currentAllocPct
            IN <<[chainId |-> chainId,
                  l2Token |-> l2Token,
                  currentAllocPct |-> currentAllocPct,
                  thresholdPct |-> config.thresholdPct,
                  targetPct |-> config.targetPct,
                  balance |-> tokenBalances[<<HubChain, l1Token>>],
                  cumulativeBalance |-> cumulativeBalance,
                  amount |-> BNDiv(deltaPct * cumulativeBalance, FixedPoint)]>>

\* getPossibleRebalances, for the L1 tokens of the configuration that are the
\* model's token.
getPossibleRebalances ==
    IF L1Token \notin DOMAIN tokenConfig THEN <<>>
    ELSE LET cumulativeBalance == getCumulativeBalance(L1Token)
             forChain(chainId) ==
                 IF ~l1TokenEnabledForChain(L1Token, chainId) THEN <<>>
                 ELSE ConcatMap([t \in L2Tokens |->
                                    rebalanceRequiredFor(L1Token, chainId, t, cumulativeBalance)],
                                getRemoteTokensForL1Token(L1Token, chainId))
         IN IF cumulativeBalance = 0 THEN <<>>
            ELSE ConcatMap([c \in Chains |-> forChain(c)], getEnabledL2Chains)

\* The loop over rebalancesRequired from plan index on, up to its next await:
\* every plan that does not fit the hub balance is pushed to unexecutedRebalances;
\* the loop stops at the first plan that fits (whose balance is then re-read) or
\* at the end of the list.
RECURSIVE nextPlanToCheck(_, _, _, _)
nextPlanToCheck(plans, index, unexecuted, unallocatedBalance) ==
    IF index > Len(plans) THEN [index |-> index, unexecuted |-> unexecuted]
    ELSE IF plans[index].amount <= unallocatedBalance
         THEN [index |-> index, unexecuted |-> unexecuted]
         ELSE nextPlanToCheck(plans, index + 1, Append(unexecuted, plans[index]),
                              unallocatedBalance)

\* What balanceOf can return for a plan recorded with the given balance: the same
\* balance, or another one when something else moved the relayer's tokens.
OnChainBalances(recorded) == {recorded, recorded + 5}

\* Nothing was logged by the catch block.
NoErrorLog == [possibleRebalances |-> <<>>, unexecutedRebalances |-> <<>>,
               executedTransactions |-> <<>>]

\* A variant without the catch block: the exception leaves the call.
rethrow(history) == [pc |-> "threw", history |-> history]

\* The catch block of rebalanceInventoryIfNeeded: the error is logged with the
\* three lists as they are, and the call ends normally.
catchBlock(history) ==
    [pc |-> "done",
     history |-> [history EXCEPT
                     !.caught = TRUE,
                     !.errorLog = [possibleRebalances |-> possibleRebalances,
                                   unexecutedRebalances |-> unexecutedRebalances,
                                   executedTransactions |-> executedTransactions]]]

\* The pending inbound transfers of every chain and token together.
OutstandingTotal ==
    SumOver([k \in Chains \X L2Tokens |-> outstandingTransfers[k]], Chains \X L2Tokens)

\* rebalanceInventoryIfNeeded up to its first await.
RebalanceStarts ==
    /\ rebalancePc = "idle"
    /\ IF ~isInventoryManagementEnabled
       THEN /\ logDisabledManagement' = TRUE
            /\ rebalancePc' = "done"
            /\ UNCHANGED <<rebalancesRequired, planIndex, unexecutedRebalances, passHistory>>
       ELSE LET plans == getPossibleRebalances
                next == nextPlanToCheck(plans, 1, <<>>, tokenBalances[<<HubChain, L1Token>>])
            IN /\ rebalancesRequired' = plans
               /\ unexecutedRebalances' = next.unexecuted
               /\ planIndex' = next.index
               /\ rebalancePc' = IF next.index > Len(plans) THEN "done" ELSE "awaitBalance"
               /\ passHistory' = [startBalance |-> tokenBalances[<<HubChain, L1Token>>],
                                  startCumulative |-> getCumulativeBalance(L1Token),
                                  considered |-> next.index - 1,
                                  skipped |-> {}, caught |-> FALSE,
                                  failedSubmission |-> 0,
                                  startOutstanding |-> OutstandingTotal,
                                  errorLog |-> NoErrorLog, finalized |-> {}]
               /\ UNCHANGED logDisabledManagement
    /\ UNCHANGED <<tokenConfig, prioritizeLpUtilization, tokenBalances, tokenShortfalls,
                   outstandingTransfers, poolRebalanceRoutes, upcomingRefunds, runningBalances,
                   spokeTargets, bundleRefundsPromise, excessRunningBalancePromises,
                   possibleRebalances, executedTransactions>>
    /\ UNCHANGED <<profitVars, refundVars, bridgeVars, callerVars, withdrawVars,
                   unwrapVars>>

\* A variant that tracks the transfer of a plan whatever balanceOf returned.
HubBalanceReadTrackingAlways ==
    /\ rebalancePc = "awaitBalance"
    /\ LET plan == rebalancesRequired[planIndex]
       IN \E currentBalance \in OnChainBalances(plan.balance) :
             LET balanceChanged == plan.balance # currentBalance
                 tracked == trackCrossChainTransfer(L1Token, plan.l2Token, plan.amount, plan.chainId)
                 balances == tracked.balances
                 possible == IF balanceChanged THEN possibleRebalances
                             ELSE Append(possibleRebalances, plan)
                 next == nextPlanToCheck(rebalancesRequired, planIndex + 1,
                                         unexecutedRebalances, balances[<<HubChain, L1Token>>])
                 loopEnded == next.index > Len(rebalancesRequired)
             IN /\ tokenBalances' = balances
                /\ outstandingTransfers' =
                       tracked.outstanding
                /\ possibleRebalances' = possible
                /\ unexecutedRebalances' = next.unexecuted
                /\ passHistory' =
                       [passHistory EXCEPT
                           !.considered = next.index - 1,
                           !.skipped = IF balanceChanged THEN @ \cup {planIndex} ELSE @]
                /\ planIndex' = IF loopEnded THEN 1 ELSE next.index
                /\ rebalancePc' = IF ~loopEnded THEN "awaitBalance"
                                  ELSE IF possible = <<>> THEN "done" ELSE "awaitSend"
    /\ UNCHANGED <<tokenConfig, prioritizeLpUtilization, logDisabledManagement, tokenShortfalls,
                   poolRebalanceRoutes, upcomingRefunds, runningBalances, spokeTargets,
                   bundleRefundsPromise, excessRunningBalancePromises, rebalancesRequired,
                   executedTransactions>>
    /\ UNCHANGED <<profitVars, refundVars, bridgeVars, callerVars, withdrawVars,
                   unwrapVars>>

\* balanceOf returns for the plan at planIndex: with an unchanged balance the plan
\* is accepted and tracked, else it is skipped; the loop then runs on to its next
\* await, and after the last plan the first accepted transfer is submitted.
HubBalanceRead ==
    /\ rebalancePc = "awaitBalance"
    /\ LET plan == rebalancesRequired[planIndex]
       IN \E currentBalance \in OnChainBalances(plan.balance) :
             LET balanceChanged == plan.balance # currentBalance
                 tracked == trackCrossChainTransfer(L1Token, plan.l2Token, plan.amount, plan.chainId)
                 balances == IF balanceChanged THEN tokenBalances ELSE tracked.balances
                 possible == IF balanceChanged THEN possibleRebalances
                             ELSE Append(possibleRebalances, plan)
                 next == nextPlanToCheck(rebalancesRequired, planIndex + 1,
                                         unexecutedRebalances, balances[<<HubChain, L1Token>>])
                 loopEnded == next.index > Len(rebalancesRequired)
             IN /\ tokenBalances' = balances
                /\ outstandingTransfers' =
                       IF balanceChanged THEN outstandingTransfers ELSE tracked.outstanding
                /\ possibleRebalances' = possible
                /\ unexecutedRebalances' = next.unexecuted
                /\ passHistory' =
                       [passHistory EXCEPT
                           !.considered = next.index - 1,
                           !.skipped = IF balanceChanged THEN @ \cup {planIndex} ELSE @]
                /\ planIndex' = IF loopEnded THEN 1 ELSE next.index
                /\ rebalancePc' = IF ~loopEnded THEN "awaitBalance"
                                  ELSE IF possible = <<>> THEN "done" ELSE "awaitSend"
    /\ UNCHANGED <<tokenConfig, prioritizeLpUtilization, logDisabledManagement, tokenShortfalls,
                   poolRebalanceRoutes, upcomingRefunds, runningBalances, spokeTargets,
                   bundleRefundsPromise, excessRunningBalancePromises, rebalancesRequired,
                   executedTransactions>>
    /\ UNCHANGED <<profitVars, refundVars, bridgeVars, callerVars, withdrawVars,
                   unwrapVars>>

\* balanceOf throws: the catch block logs the error and the pass ends.
HubBalanceReadFails ==
    /\ rebalancePc = "awaitBalance"
    /\ passHistory' = catchBlock(passHistory).history
    /\ rebalancePc' = catchBlock(passHistory).pc
    /\ UNCHANGED <<inventoryVars, rebalancesRequired, planIndex, possibleRebalances,
                   unexecutedRebalances, executedTransactions>>
    /\ UNCHANGED <<profitVars, refundVars, bridgeVars, callerVars, withdrawVars,
                   unwrapVars>>

\* A variant that submits the accepted transfers last first.
TransferSentLastFirst ==
    /\ rebalancePc = "awaitSend"
    /\ executedTransactions' =
           Append(executedTransactions,
                  possibleRebalances[Len(possibleRebalances) + 1 - planIndex])
    /\ IF planIndex = Len(possibleRebalances)
       THEN rebalancePc' = "done" /\ UNCHANGED planIndex
       ELSE planIndex' = planIndex + 1 /\ UNCHANGED rebalancePc
    /\ UNCHANGED <<inventoryVars, rebalancesRequired, possibleRebalances, unexecutedRebalances,
                   passHistory>>
    /\ UNCHANGED <<profitVars, refundVars, bridgeVars, callerVars, withdrawVars,
                   unwrapVars>>

\* sendTokenCrossChain returns for the accepted plan at planIndex: it is pushed to
\* executedTransactions and the next accepted transfer is submitted.
TransferSent ==
    /\ rebalancePc = "awaitSend"
    /\ executedTransactions' = Append(executedTransactions, possibleRebalances[planIndex])
    /\ IF planIndex = Len(possibleRebalances)
       THEN rebalancePc' = "done" /\ UNCHANGED planIndex
       ELSE planIndex' = planIndex + 1 /\ UNCHANGED rebalancePc
    /\ UNCHANGED <<inventoryVars, rebalancesRequired, possibleRebalances, unexecutedRebalances,
                   passHistory>>
    /\ UNCHANGED <<profitVars, refundVars, bridgeVars, callerVars, withdrawVars,
                   unwrapVars>>

\* A variant that gives back the reservations of the plans that were not sent.
TransferFailsRollingBack ==
    /\ rebalancePc = "awaitSend"
    /\ passHistory' = [catchBlock(passHistory).history EXCEPT !.failedSubmission = planIndex]
    /\ rebalancePc' = catchBlock(passHistory).pc
    /\ LET notSent == SubSeq(possibleRebalances, planIndex, Len(possibleRebalances))
           amountTo(k) == SumSeq([i \in DOMAIN notSent |->
                                     IF <<notSent[i].chainId, notSent[i].l2Token>> = k
                                     THEN notSent[i].amount ELSE 0],
                                 [i \in DOMAIN notSent |-> i])
           amounts == SumSeq([i \in DOMAIN notSent |-> notSent[i].amount],
                             [i \in DOMAIN notSent |-> i])
       IN /\ tokenBalances' = [tokenBalances EXCEPT ![<<HubChain, L1Token>>] = @ + amounts]
          /\ outstandingTransfers' =
                 [k \in DOMAIN outstandingTransfers |-> outstandingTransfers[k] - amountTo(k)]
    /\ UNCHANGED <<tokenConfig, prioritizeLpUtilization, logDisabledManagement, tokenShortfalls,
                   poolRebalanceRoutes, upcomingRefunds, runningBalances, spokeTargets,
                   bundleRefundsPromise, excessRunningBalancePromises, rebalancesRequired,
                   planIndex, possibleRebalances, unexecutedRebalances, executedTransactions>>
    /\ UNCHANGED <<profitVars, refundVars, bridgeVars, callerVars, withdrawVars,
                   unwrapVars>>

\* sendTokenCrossChain throws: the catch block logs the error and the pass ends.
TransferFails ==
    /\ rebalancePc = "awaitSend"
    /\ passHistory' = [catchBlock(passHistory).history EXCEPT !.failedSubmission = planIndex]
    /\ rebalancePc' = catchBlock(passHistory).pc
    /\ UNCHANGED <<inventoryVars, rebalancesRequired, planIndex, possibleRebalances,
                   unexecutedRebalances, executedTransactions>>
    /\ UNCHANGED <<profitVars, refundVars, bridgeVars, callerVars, withdrawVars,
                   unwrapVars>>

\* Planning throws (getTokenDistributionPerL1Token, getPossibleRebalances): the
\* catch block logs the error and the pass ends.
PlanningFails ==
    /\ rebalancePc = "idle"
    /\ isInventoryManagementEnabled
    /\ passHistory' = catchBlock(passHistory).history
    /\ rebalancePc' = catchBlock(passHistory).pc
    /\ UNCHANGED <<inventoryVars, rebalancesRequired, planIndex, possibleRebalances,
                   unexecutedRebalances, executedTransactions>>
    /\ UNCHANGED <<profitVars, refundVars, bridgeVars, callerVars, withdrawVars,
                   unwrapVars>>

\* The step that ended the pass threw while it built the report on the executed and
\* the unexecutable plans (no token info for an L2 token): the catch block logs
\* the error and the pass ends.
ReportFails ==
    /\ rebalancePc = "done"
    /\ ~passHistory.caught
    /\ passHistory.finalized = {}
    /\ executedTransactions # <<>> \/ unexecutedRebalances # <<>>
    /\ passHistory' = catchBlock(passHistory).history
    /\ rebalancePc' = catchBlock(passHistory).pc
    /\ UNCHANGED <<inventoryVars, rebalancesRequired, planIndex, possibleRebalances,
                   unexecutedRebalances, executedTransactions>>
    /\ UNCHANGED <<profitVars, refundVars, bridgeVars, callerVars, withdrawVars,
                   unwrapVars>>

\* A submitted transfer is finalized on its chain and the collaborators' next
\* refresh sees it: its amount leaves the pending inbound transfers and arrives,
\* in the L2 token's decimals, in the relayer's balance of the L2 token.
TransferFinalized ==
    /\ rebalancePc = "done"
    /\ \E i \in DOMAIN executedTransactions \ passHistory.finalized :
          LET sent == executedTransactions[i]
              key == <<sent.chainId, sent.l2Token>>
              arrived == ConvertDecimals(L1TokenDecimals, TokenDecimalsOn(sent.chainId), sent.amount)
          IN /\ outstandingTransfers' = [outstandingTransfers EXCEPT ![key] = @ - sent.amount]
             /\ tokenBalances' = [tokenBalances EXCEPT ![key] = @ + arrived]
             /\ passHistory' = [passHistory EXCEPT !.finalized = @ \cup {i}]
    /\ UNCHANGED <<tokenConfig, prioritizeLpUtilization, logDisabledManagement, tokenShortfalls,
                   poolRebalanceRoutes, upcomingRefunds, runningBalances, spokeTargets,
                   bundleRefundsPromise, excessRunningBalancePromises>>
    /\ UNCHANGED <<rebalancePc, rebalancesRequired, planIndex, possibleRebalances,
                   unexecutedRebalances, executedTransactions>>
    /\ UNCHANGED <<profitVars, refundVars, bridgeVars, callerVars, withdrawVars,
                   unwrapVars>>

(***************************************************************************)
(* InventoryClient: configurations and worlds the model starts from        *)
(***************************************************************************)
\* A TokenBalanceConfig without and with a configured overage buffer.
BalanceConfig(targetPct, thresholdPct) ==
    [defined |-> TRUE, targetPct |-> targetPct, thresholdPct |-> thresholdPct,
     hasOverageBuffer |-> FALSE, targetOverageBuffer |-> 0,
     hasWithdrawExcessPeriod |-> FALSE]

BalanceConfigWithBuffer(targetPct, thresholdPct, buffer) ==
    [defined |-> TRUE, targetPct |-> targetPct, thresholdPct |-> thresholdPct,
     hasOverageBuffer |-> TRUE, targetOverageBuffer |-> buffer,
     hasWithdrawExcessPeriod |-> FALSE]

\* A TokenBalanceConfig with withdrawExcessPeriod set.
WithdrawBalanceConfig(targetPct, thresholdPct, buffer) ==
    [defined |-> TRUE, targetPct |-> targetPct, thresholdPct |-> thresholdPct,
     hasOverageBuffer |-> TRUE, targetOverageBuffer |-> buffer,
     hasWithdrawExcessPeriod |-> TRUE]

\* inventoryConfig.tokenConfig = {}: inventory management disabled.
DisabledConfig == EmptyMap

\* Every L2 chain configured by chain; chain 4 allows no overage.
PlainConfig ==
    [t \in {L1Token} |->
        [alias |-> FALSE,
         chains |-> [c \in {2, 3, 4, 5} |->
                        IF c = 4 THEN BalanceConfigWithBuffer(200, 150, 1000)
                        ELSE BalanceConfig(200, 150)]]]

\* Chain 5 is not configured.
PartialConfig ==
    [t \in {L1Token} |->
        [alias |-> FALSE, chains |-> [c \in {2, 3, 4} |-> BalanceConfig(200, 150)]]]

\* Configured by L2 token: on chain 5 only the bridged token is configured, on
\* chain 4 both tokens are.
AliasConfig ==
    [t \in {L1Token} |->
        [alias |-> TRUE,
         tokens |-> [k \in L2Tokens |->
                        IF k = CanonicalToken
                        THEN [c \in {2, 3, 4} |-> BalanceConfig(200, 150)]
                        ELSE [c \in {4, 5} |-> BalanceConfig(100, 50)]]]]

\* Only another L1 token is configured.
OtherTokenConfig ==
    [t \in {"U"} |-> [alias |-> FALSE, chains |-> [c \in {2, 3} |-> BalanceConfig(200, 150)]]]

\* The hub is configured as well, with the targets of the L2 chains.
HubConfig ==
    [t \in {L1Token} |->
        [alias |-> FALSE, chains |-> [c \in Chains |-> BalanceConfig(200, 150)]]]

EnabledConfigs == {PlainConfig, PartialConfig, AliasConfig, OtherTokenConfig, HubConfig}

\* A map over <<chain, token>> holding the given amounts of the canonical token
\* and nothing of the bridged token.
CanonicalAmounts(byChain) ==
    [k \in Chains \X L2Tokens |-> IF k[2] = CanonicalToken THEN byChain[k[1]] ELSE 0]

NoAmounts == [k \in Chains \X L2Tokens |-> 0]
NoneByChain == [c \in Chains |-> 0]

\* Balances, shortfalls, pending transfers and upcoming refunds the relayer can
\* be in: nothing anywhere; most of the inventory on the hub; most of it on the
\* L2 chains; the same with a shortfall and a pending transfer; the same with
\* refunds upcoming.
HubHeavy == CanonicalAmounts(<<100, 10, 100, 10, 10>>)
L2Heavy == CanonicalAmounts(<<10, 60, 0, 60, 60>>)

Worlds ==
    {[balances |-> NoAmounts, shortfalls |-> NoAmounts, outstanding |-> NoAmounts,
      refunds |-> NoneByChain],
     [balances |-> HubHeavy, shortfalls |-> NoAmounts, outstanding |-> NoAmounts,
      refunds |-> NoneByChain],
     [balances |-> L2Heavy, shortfalls |-> NoAmounts, outstanding |-> NoAmounts,
      refunds |-> NoneByChain],
     [balances |-> L2Heavy, shortfalls |-> CanonicalAmounts(<<0, 0, 0, 0, 100>>),
      outstanding |-> CanonicalAmounts(<<0, 30, 0, 0, 0>>), refunds |-> NoneByChain],
     [balances |-> L2Heavy, shortfalls |-> NoAmounts, outstanding |-> NoAmounts,
      refunds |-> <<100, 0, 500, 0, 50>>]}

DefaultWorld ==
    [balances |-> HubHeavy, shortfalls |-> NoAmounts, outstanding |-> NoAmounts,
     refunds |-> NoneByChain]

\* Running balances and spoke targets of the slow-withdrawal chains, and whether
\* the relayer prioritizes LP utilization.
SpokeWorlds ==
    {[prioritize |-> FALSE, running |-> <<0, -30, -80, 0, 0>>, targets |-> <<0, 10, 10, 0, 0>>],
     [prioritize |-> TRUE, running |-> <<0, 0, 20, 0, 0>>, targets |-> <<0, 10, 10, 0, 0>>],
     [prioritize |-> TRUE, running |-> <<0, -30, -80, 0, 0>>, targets |-> <<0, 10, 10, 0, 0>>],
     [prioritize |-> TRUE, running |-> <<0, -80, -30, 0, 0>>, targets |-> <<0, 10, 10, 0, 0>>],
     [prioritize |-> TRUE, running |-> <<0, -80, -80, 0, 0>>, targets |-> <<0, 10, 0, 0, 0>>],
     [prioritize |-> TRUE, running |-> <<0, -80, -40, 0, 0>>, targets |-> <<0, 10, 0, 0, 0>>]}

DefaultSpokeWorld ==
    [prioritize |-> TRUE, running |-> <<0, 0, 20, 0, 0>>, targets |-> <<0, 10, 10, 0, 0>>]

\* The chains the hub pool has a pool rebalance route to for the L1 token.
RouteSets == {Chains, Chains \ {5}, Chains \ {3}}

\* Deposits offered to determineRefundChainId.
RefundDeposits ==
    {d \in [originChainId : {1, 2, 4, 5},
            destinationChainId : {1, 3, 5},
            fromLiteChain : BOOLEAN,
            originRepaymentOnly : BOOLEAN,
            toLiteChain : BOOLEAN,
            outputTokenInvalid : BOOLEAN,
            tokensEquivalent : BOOLEAN,
            outputMapsToInputL1Token : BOOLEAN,
            inputAmount : {5, 60}] :
        /\ d.fromLiteChain => ~d.originRepaymentOnly
        /\ d.tokensEquivalent => d.outputMapsToInputL1Token}

\* The state of an InventoryClient after construction in the given surroundings.
InventoryConstructed(config, world, spoke, routes) ==
    /\ tokenConfig = config
    /\ prioritizeLpUtilization = spoke.prioritize
    /\ logDisabledManagement = FALSE
    /\ tokenBalances = world.balances
    /\ tokenShortfalls = world.shortfalls
    /\ outstandingTransfers = world.outstanding
    /\ upcomingRefunds = world.refunds
    /\ runningBalances = spoke.running
    /\ spokeTargets = spoke.targets
    /\ poolRebalanceRoutes = routes
    /\ bundleRefundsPromise = Undefined
    /\ excessRunningBalancePromises = EmptyMap

NoDeposit ==
    [originChainId |-> 1, destinationChainId |-> 1, fromLiteChain |-> FALSE,
     originRepaymentOnly |-> FALSE, toLiteChain |-> FALSE, outputTokenInvalid |-> FALSE,
     tokensEquivalent |-> TRUE, outputMapsToInputL1Token |-> TRUE, inputAmount |-> 0]

\* No determineRefundChainId call.
RefundIdle ==
    /\ deposit = NoDeposit
    /\ refundPc = "done"
    /\ refundLocals = NoLocals
    /\ refundResult = NoResult

\* No rebalance pass.
RebalanceIdle ==
    /\ rebalancePc = "off"
    /\ rebalancesRequired = <<>>
    /\ planIndex = 0
    /\ possibleRebalances = <<>>
    /\ unexecutedRebalances = <<>>
    /\ executedTransactions = <<>>
    /\ passHistory = [startBalance |-> 0, startCumulative |-> 0, considered |-> 0,
                     skipped |-> {}, caught |-> FALSE, failedSubmission |-> 0,
                     startOutstanding |-> 0, errorLog |-> NoErrorLog,
                     finalized |-> {}]

\* An InventoryClient nothing calls.
InventoryIdle ==
    /\ InventoryConstructed(DisabledConfig, DefaultWorld, DefaultSpokeWorld, Chains)
    /\ RefundIdle
    /\ RebalanceIdle

(***************************************************************************)
(* InventoryClient: concurrent calls and update()                          *)
(***************************************************************************)
MaxCallers == 2
MaxInventoryUpdates == 1
CallerIds == 1..MaxCallers

\* Deposits of the concurrent calls: two ordinary ones of different amounts and
\* one from a lite chain.
CallerDeposits ==
    {d \in RefundDeposits :
        /\ d.originChainId = 2 /\ d.destinationChainId = 5
        /\ ~d.originRepaymentOnly /\ ~d.toLiteChain /\ ~d.outputTokenInvalid
        /\ d.tokensEquivalent /\ d.outputMapsToInputL1Token
        /\ d.fromLiteChain => d.inputAmount = 5}

NoCallOf == [pc |-> "idle", deposit |-> NoDeposit, locals |-> NoLocals, result |-> NoResult]
NoFetches ==
    [bundleRefunds |-> 0, bundleStarter |-> 0, bundleFirst |-> 0, bundleCycle |-> 0,
     runningBalances |-> 0, runningStarter |-> 0, runningFirst |-> 0, runningCycle |-> 0]

\* No concurrent calls.
CallersIdle ==
    /\ callers = [i \in CallerIds |-> NoCallOf]
    /\ updates = 0
    /\ fetches = NoFetches

\* A variant of the check that finds no stored promise ever.
startsFetchAlways(stored) == TRUE

\* !isDefined(stored promise): the caller has to start the fetch itself.
startsFetch(stored) == stored = Undefined

\* The state of this.excessRunningBalancePromises[l1Token], if one is stored.
excessRunningBalancePromise(l1Token) ==
    IF l1Token \in DOMAIN excessRunningBalancePromises
    THEN excessRunningBalancePromises[l1Token].state
    ELSE Undefined

\* What determineRefundChainId returns or throws before getBundleRefunds, if it
\* ends there.
beforeBundleRefunds(d) ==
    IF invalidOutputToken(d) THEN [ends |-> TRUE, result |-> Returned(<<>>)]
    ELSE IF ~isInventoryManagementEnabled
    THEN [ends |-> TRUE,
          result |-> Returned(<<IF ~canTakeDestinationChainRepayment(d)
                                THEN d.originChainId ELSE d.destinationChainId>>)]
    ELSE IF ~validateOutputToken(d) THEN [ends |-> TRUE, result |-> Threw]
    ELSE IF depositForcesOriginChainRepayment(d) /\ repaymentChainCanBeQuicklyRebalanced(d)
    THEN [ends |-> TRUE, result |-> Returned(<<d.originChainId>>)]
    ELSE [ends |-> FALSE, result |-> NoResult]

PcOf(result) == IF result.threw THEN "threw" ELSE "returned"

\* Caller i calls determineRefundChainId, which runs to its end or to the await in
\* getBundleRefunds, where it starts getAllBundleRefunds unless a promise is stored.
CallerStarts(i) ==
    /\ callers[i].pc = "idle"
    /\ \E d \in CallerDeposits :
          LET before == beforeBundleRefunds(d)
              starts == startsFetch(bundleRefundsPromise)
          IN IF before.ends
             THEN /\ callers' = [callers EXCEPT ![i] = [pc |-> PcOf(before.result), deposit |-> d,
                                                        locals |-> NoLocals,
                                                        result |-> before.result]]
                  /\ logDisabledManagement' =
                         (logDisabledManagement \/
                          (~invalidOutputToken(d) /\ ~isInventoryManagementEnabled))
                  /\ UNCHANGED <<bundleRefundsPromise, fetches>>
             ELSE /\ callers' = [callers EXCEPT ![i] = [pc |-> "awaitBundleRefunds",
                                                        deposit |-> d, locals |-> NoLocals,
                                                        result |-> NoResult]]
                  /\ bundleRefundsPromise' = IF starts THEN "pending" ELSE bundleRefundsPromise
                  /\ fetches' =
                         [fetches EXCEPT
                             !.bundleRefunds = IF starts THEN @ + 1 ELSE @,
                             !.bundleStarter = IF starts THEN i ELSE @,
                             !.bundleCycle = IF starts THEN updates ELSE @,
                             !.bundleFirst = IF @ = 0 THEN i ELSE @]
                  /\ UNCHANGED logDisabledManagement
    /\ UNCHANGED <<tokenConfig, prioritizeLpUtilization, tokenBalances, tokenShortfalls,
                   outstandingTransfers, poolRebalanceRoutes, upcomingRefunds, runningBalances,
                   spokeTargets, excessRunningBalancePromises, updates>>
    /\ UNCHANGED <<profitVars, refundVars, rebalanceVars, bridgeVars, withdrawVars,
                   unwrapVars>>

\* getAllBundleRefunds returns: the stored promise resolves.
AllBundleRefundsReturn ==
    /\ bundleRefundsPromise = "pending"
    /\ bundleRefundsPromise' = "resolved"
    /\ UNCHANGED <<tokenConfig, prioritizeLpUtilization, logDisabledManagement, tokenBalances,
                   tokenShortfalls, outstandingTransfers, poolRebalanceRoutes, upcomingRefunds,
                   runningBalances, spokeTargets, excessRunningBalancePromises>>
    /\ UNCHANGED <<profitVars, refundVars, rebalanceVars, bridgeVars, callerVars, withdrawVars,
                   unwrapVars>>

\* getAllBundleRefunds throws: the stored promise rejects.
AllBundleRefundsFail ==
    /\ bundleRefundsPromise = "pending"
    /\ bundleRefundsPromise' = "rejected"
    /\ UNCHANGED <<tokenConfig, prioritizeLpUtilization, logDisabledManagement, tokenBalances,
                   tokenShortfalls, outstandingTransfers, poolRebalanceRoutes, upcomingRefunds,
                   runningBalances, spokeTargets, excessRunningBalancePromises>>
    /\ UNCHANGED <<profitVars, refundVars, rebalanceVars, bridgeVars, callerVars, withdrawVars,
                   unwrapVars>>

\* Caller i resumes after the await of the bundle refunds: it throws with a
\* rejected promise; else it goes on to getExcessRunningBalancePcts, which starts
\* _getLatestRunningBalances unless a promise is stored for the L1 token, or it
\* runs to its end.
CallerGetsBundleRefunds(i) ==
    /\ callers[i].pc = "awaitBundleRefunds"
    /\ bundleRefundsPromise \in {"resolved", "rejected"}
    /\ LET d == callers[i].deposit
           totalRefundsPerChain == getBundleRefunds(L1Token)
           locals == [totalRefundsPerChain |-> totalRefundsPerChain,
                      cumulativeRefunds |-> SumOver(totalRefundsPerChain, Chains),
                      cumulativeVirtualBalance |-> getCumulativeBalance(L1Token)]
           starts == startsFetch(excessRunningBalancePromise(L1Token))
       IN IF bundleRefundsPromise = "rejected"
          THEN /\ callers' = [callers EXCEPT ![i].pc = "threw", ![i].result = Threw]
               /\ UNCHANGED <<excessRunningBalancePromises, fetches>>
          ELSE IF ~depositForcesOriginChainRepayment(d) /\ prioritizeLpUtilization
          THEN /\ callers' = [callers EXCEPT ![i].pc = "awaitExcessRunningBalances",
                                             ![i].locals = locals]
               /\ excessRunningBalancePromises' =
                      IF starts
                      THEN [t \in {L1Token} |->
                               [state |-> "pending",
                                value |-> getLatestRunningBalances(
                                              L1Token, getSlowWithdrawalRepaymentChains(L1Token))]]
                      ELSE excessRunningBalancePromises
               /\ fetches' =
                      [fetches EXCEPT
                          !.runningBalances = IF starts THEN @ + 1 ELSE @,
                          !.runningStarter = IF starts THEN i ELSE @,
                          !.runningCycle = IF starts THEN updates ELSE @,
                          !.runningFirst = IF @ = 0 THEN i ELSE @]
          ELSE LET result == selectRefundChains(d, <<>>, locals)
               IN /\ callers' = [callers EXCEPT ![i].pc = PcOf(result), ![i].locals = locals,
                                                ![i].result = result]
                  /\ UNCHANGED <<excessRunningBalancePromises, fetches>>
    /\ UNCHANGED <<tokenConfig, prioritizeLpUtilization, logDisabledManagement, tokenBalances,
                   tokenShortfalls, outstandingTransfers, poolRebalanceRoutes, upcomingRefunds,
                   runningBalances, spokeTargets, bundleRefundsPromise, updates>>
    /\ UNCHANGED <<profitVars, refundVars, rebalanceVars, bridgeVars, withdrawVars,
                   unwrapVars>>

\* _getLatestRunningBalances returns or throws: the stored promise settles.
RunningBalancesSettle ==
    /\ excessRunningBalancePromise(L1Token) = "pending"
    /\ \E outcome \in {"resolved", "rejected"} :
          excessRunningBalancePromises' =
              [excessRunningBalancePromises EXCEPT ![L1Token].state = outcome]
    /\ UNCHANGED <<tokenConfig, prioritizeLpUtilization, logDisabledManagement, tokenBalances,
                   tokenShortfalls, outstandingTransfers, poolRebalanceRoutes, upcomingRefunds,
                   runningBalances, spokeTargets, bundleRefundsPromise>>
    /\ UNCHANGED <<profitVars, refundVars, rebalanceVars, bridgeVars, callerVars, withdrawVars,
                   unwrapVars>>

\* Caller i resumes after the await of the running balances: it throws with a
\* rejected promise, else it computes the excess percentages for its deposit's
\* amount and runs to its end.
CallerGetsRunningBalances(i) ==
    /\ callers[i].pc = "awaitExcessRunningBalances"
    /\ excessRunningBalancePromise(L1Token) \in {"resolved", "rejected"}
    /\ LET d == callers[i].deposit
           promise == excessRunningBalancePromises[L1Token]
           excessRunningBalancePcts ==
               getExcessRunningBalancePcts(promise.value, L1Token, inputAmountInL1TokenDecimals(d))
           result ==
               IF promise.state = "rejected" THEN Threw
               ELSE selectRefundChains(d, chainsWithExcessSpokeBalances(excessRunningBalancePcts),
                                       callers[i].locals)
       IN callers' = [callers EXCEPT ![i].pc = PcOf(result), ![i].result = result]
    /\ UNCHANGED <<inventoryVars, updates, fetches>>
    /\ UNCHANGED <<profitVars, refundVars, rebalanceVars, bridgeVars, withdrawVars,
                   unwrapVars>>

\* The relayer takes the result of caller i's call; the caller can call again.
CallerEnds(i) ==
    /\ callers[i].pc \in {"returned", "threw"}
    /\ callers' = [callers EXCEPT ![i] = NoCallOf]
    /\ UNCHANGED <<inventoryVars, updates, fetches>>
    /\ UNCHANGED <<profitVars, refundVars, rebalanceVars, bridgeVars, withdrawVars,
                   unwrapVars>>

\* InventoryClient.update(), which the relayer awaits between two rounds of calls:
\* it returns at once with inventory management disabled, else it has the
\* crossChainTransferClient refresh the pending transfers, here found as they were.
InventoryUpdate ==
    /\ updates < MaxInventoryUpdates
    /\ \A i \in CallerIds : callers[i].pc = "idle"
    /\ bundleRefundsPromise # "pending"
    /\ excessRunningBalancePromise(L1Token) # "pending"
    /\ updates' = updates + 1
    /\ UNCHANGED <<inventoryVars, callers, fetches>>
    /\ UNCHANGED <<profitVars, refundVars, rebalanceVars, bridgeVars, withdrawVars,
                   unwrapVars>>

(***************************************************************************)
(* InventoryClient: withdrawExcessBalances. sdkUtils.forEachAsync starts   *)
(* its callback for every element and awaits them together, as mapAsync    *)
(* does in updateGasCosts: the callbacks of all (chain, L2 token) pairs    *)
(* run to their first await in one stretch, and so do the submissions.     *)
(***************************************************************************)
\* toBNWei("0.95")
discountToTargetOverageBuffer == 950

\* The (chain, L2 token) pairs the pass goes through for the L1 token.
WithdrawalPairs ==
    {pair \in (Chains \ {HubChain}) \X L2Tokens :
        /\ l1TokenEnabledForChain(L1Token, pair[1])
        /\ Includes(getRemoteTokensForL1Token(L1Token, pair[1]), pair[2])}

\* targetOverageBuffer * 0.95
targetPctMultiplier(config) ==
    BNDiv(config.targetOverageBuffer * discountToTargetOverageBuffer, FixedPoint)

\* excessWithdrawThresholdPct
excessWithdrawThresholdPct(config) ==
    BNDiv(config.targetPct * targetPctMultiplier(config), FixedPoint)

cumulativeBalanceInL2TokenDecimals(chainId, cumulativeBalance) ==
    ConvertDecimals(L1TokenDecimals, TokenDecimalsOn(chainId), cumulativeBalance)

\* desiredWithdrawalAmount
desiredWithdrawalAmount(chainId, l2Token, config, cumulativeBalance) ==
    LET withdrawPct == getCurrentAllocationPct(L1Token, chainId, l2Token) - config.targetPct
    IN BNDiv(cumulativeBalanceInL2TokenDecimals(chainId, cumulativeBalance) * withdrawPct,
             FixedPoint)

\* maxL2WithdrawalVolume
maxL2WithdrawalVolume(chainId, config, cumulativeBalance) ==
    BNDiv((excessWithdrawThresholdPct(config) - config.targetPct)
              * cumulativeBalanceInL2TokenDecimals(chainId, cumulativeBalance),
          FixedPoint)

\* The callback of one (chain, L2 token) up to its await: "skip" when it returns
\* without a withdrawal, "throw" when the buffer is missing or the assertion on
\* the multiplier fails, "ask" when it goes on to getL2PendingWithdrawalAmount.
withdrawalCheck(chainId, l2Token) ==
    LET config == getTokenConfig(L1Token, chainId, l2Token)
    IN IF ~config.defined THEN "skip"
       ELSE IF ~config.hasWithdrawExcessPeriod THEN "skip"
       ELSE IF chainId \notin withdrawWorld.supported THEN "skip"
       ELSE IF ~config.hasOverageBuffer THEN "throw"
       ELSE IF targetPctMultiplier(config) < FixedPoint THEN "throw"
       ELSE IF getCurrentAllocationPct(L1Token, chainId, l2Token)
                  >= excessWithdrawThresholdPct(config)
            THEN "ask"
            ELSE "skip"

\* A variant of the volume check that also stops a withdrawal which would take
\* the volume over the cap.
withdrawalVolumeOverCapWithAmount(pendingWithdrawalAmount, amount, cap) ==
    pendingWithdrawalAmount + amount >= cap

\* pendingWithdrawalAmount.gte(maxL2WithdrawalVolume)
withdrawalVolumeOverCap(pendingWithdrawalAmount, amount, cap) ==
    pendingWithdrawalAmount >= cap

NoWithdrawals == [c \in Chains |-> <<>>]
NoWithdrawWorld == [supported |-> {}, pending |-> [p \in Chains \X L2Tokens |-> 0]]
NoWithdrawHistory == [startBalances |-> NoAmounts, maxInFlight |-> 0]

\* No withdrawExcessBalances pass.
WithdrawIdle ==
    /\ withdrawPc = "off"
    /\ withdrawWorld = NoWithdrawWorld
    /\ pendingAsked = {}
    /\ withdrawalsRequired = NoWithdrawals
    /\ withdrawalsInFlight = {}
    /\ txnReceipts = NoWithdrawals
    /\ withdrawHistory = NoWithdrawHistory

\* The submissions the execution part starts: one withdrawTokenFromL2 call for
\* every planned withdrawal of every chain, each started by its own callback.
submissionsStarted(required) ==
    {sub \in Chains \X (1..Cardinality(WithdrawalPairs)) : sub[2] \in DOMAIN required[sub[1]]}

\* withdrawExcessBalances up to its first await.
WithdrawExcessBalancesStarts ==
    /\ withdrawPc = "idle"
    /\ withdrawHistory' = [withdrawHistory EXCEPT !.startBalances = tokenBalances]
    /\ IF ~isInventoryManagementEnabled \/ getCumulativeBalance(L1Token) = 0
       THEN /\ withdrawPc' = "done"
            /\ UNCHANGED pendingAsked
       ELSE LET asks == {pair \in WithdrawalPairs : withdrawalCheck(pair[1], pair[2]) = "ask"}
                throws == \E pair \in WithdrawalPairs : withdrawalCheck(pair[1], pair[2]) = "throw"
            IN /\ pendingAsked' = IF throws THEN {} ELSE asks
               /\ withdrawPc' = IF throws THEN "threw"
                                ELSE IF asks = {} THEN "done" ELSE "awaitPending"
    /\ UNCHANGED <<withdrawWorld, withdrawalsRequired, withdrawalsInFlight, txnReceipts>>
    /\ UNCHANGED <<profitVars, inventoryVars, refundVars, rebalanceVars, bridgeVars, callerVars,
                   unwrapVars>>

\* getL2PendingWithdrawalAmount returns for one pair: its withdrawal is planned
\* unless the volume is over the cap; with the last pair's answer the planning
\* ends, and every planned withdrawal is submitted.
PendingWithdrawalAmountArrives ==
    /\ withdrawPc = "awaitPending"
    /\ \E pair \in pendingAsked :
          LET chainId == pair[1]
              l2Token == pair[2]
              config == getTokenConfig(L1Token, chainId, l2Token)
              cumulativeBalance == getCumulativeBalance(L1Token)
              amount == desiredWithdrawalAmount(chainId, l2Token, config, cumulativeBalance)
              cap == maxL2WithdrawalVolume(chainId, config, cumulativeBalance)
              required ==
                  IF withdrawalVolumeOverCap(withdrawWorld.pending[pair], amount, cap)
                  THEN withdrawalsRequired
                  ELSE [withdrawalsRequired EXCEPT
                           ![chainId] = Append(@, [l2Token |-> l2Token,
                                                   amountToWithdraw |-> amount])]
              started == submissionsStarted(required)
          IN /\ pendingAsked' = pendingAsked \ {pair}
             /\ withdrawalsRequired' = required
             /\ IF pendingAsked' # {}
                THEN UNCHANGED <<withdrawPc, withdrawalsInFlight, withdrawHistory>>
                ELSE /\ withdrawalsInFlight' = started
                     /\ withdrawPc' = IF started = {} THEN "done" ELSE "awaitWithdrawals"
                     /\ withdrawHistory' =
                            [withdrawHistory EXCEPT !.maxInFlight = Cardinality(started)]
    /\ UNCHANGED <<withdrawWorld, txnReceipts>>
    /\ UNCHANGED <<profitVars, inventoryVars, refundVars, rebalanceVars, bridgeVars, callerVars,
                   unwrapVars>>

\* getL2PendingWithdrawalAmount throws: the pass rejects, nothing is submitted.
PendingWithdrawalAmountFails ==
    /\ withdrawPc = "awaitPending"
    /\ pendingAsked' = {}
    /\ withdrawPc' = "threw"
    /\ UNCHANGED <<withdrawWorld, withdrawalsRequired, withdrawalsInFlight, txnReceipts,
                   withdrawHistory>>
    /\ UNCHANGED <<profitVars, inventoryVars, refundVars, rebalanceVars, bridgeVars, callerVars,
                   unwrapVars>>

\* One withdrawTokenFromL2 call returns its transactions: the pass ends with the
\* last one, unless it has rejected.
WithdrawalSubmitted ==
    /\ \E sub \in withdrawalsInFlight :
          /\ withdrawalsInFlight' = withdrawalsInFlight \ {sub}
          /\ txnReceipts' = [txnReceipts EXCEPT ![sub[1]] = Append(@, sub[2])]
          /\ withdrawPc' = IF withdrawPc = "awaitWithdrawals" /\ withdrawalsInFlight' = {}
                           THEN "done" ELSE withdrawPc
    /\ UNCHANGED <<withdrawWorld, pendingAsked, withdrawalsRequired, withdrawHistory>>
    /\ UNCHANGED <<profitVars, inventoryVars, refundVars, rebalanceVars, bridgeVars, callerVars,
                   unwrapVars>>

\* One withdrawTokenFromL2 call throws: the pass rejects; the other calls go on.
WithdrawalFails ==
    /\ \E sub \in withdrawalsInFlight :
          withdrawalsInFlight' = withdrawalsInFlight \ {sub}
    /\ withdrawPc' = "threw"
    /\ UNCHANGED <<withdrawWorld, pendingAsked, withdrawalsRequired, txnReceipts,
                   withdrawHistory>>
    /\ UNCHANGED <<profitVars, inventoryVars, refundVars, rebalanceVars, bridgeVars, callerVars,
                   unwrapVars>>

(***************************************************************************)
(* InventoryClient: unwrapWeth                                             *)
(***************************************************************************)
NoUnwrapWorld == [chains |-> <<>>, balance |-> NoneByChain]
NoUnwrapHistory == [startBalances |-> NoAmounts, caught |-> FALSE]

\* No unwrapWeth pass.
UnwrapIdle ==
    /\ unwrapPc = "off"
    /\ unwrapWorld = NoUnwrapWorld
    /\ unwrapsRequired = <<>>
    /\ unexecutedUnwraps = <<>>
    /\ unwrapIndex = 0
    /\ executedUnwraps = <<>>
    /\ unwrapHistory = NoUnwrapHistory

\* The chains.forEach of unwrapWeth: a chain whose ETH balance is below its
\* threshold gets an unwrap of target less balance, planned when the local WETH
\* balance covers it and listed as unexecuted when not. The balances are read,
\* nothing is written.
RECURSIVE consideredUnwraps(_, _, _)
consideredUnwraps(chains, i, lists) ==
    IF i > Len(chains) THEN lists
    ELSE LET chainInfo == [chains[i] EXCEPT !.balance = unwrapWorld.balance[chains[i].chainId]]
             l2WethBalance == tokenBalances[<<chainInfo.chainId, CanonicalToken>>]
             amountToUnwrap == chainInfo.unwrapWethTarget - chainInfo.balance
             unwrap == [chainInfo |-> chainInfo, amount |-> amountToUnwrap]
         IN IF chainInfo.balance < chainInfo.unwrapWethThreshold
            THEN IF l2WethBalance >= amountToUnwrap
                 THEN consideredUnwraps(chains, i + 1,
                                        [lists EXCEPT !.required = Append(@, unwrap)])
                 ELSE consideredUnwraps(chains, i + 1,
                                        [lists EXCEPT !.unexecuted = Append(@, unwrap)])
            ELSE consideredUnwraps(chains, i + 1, lists)

\* tokenClient.decrementLocalBalance for the unwrap the execution loop is about
\* to submit.
decrementLocalBalance(balances, unwrap) ==
    [balances EXCEPT ![<<unwrap.chainInfo.chainId, CanonicalToken>>] = @ - unwrap.amount]

\* unwrapWeth up to its first await: the ETH balance of every chain with a
\* threshold is requested.
UnwrapWethStarts ==
    /\ unwrapPc = "idle"
    /\ unwrapHistory' = [unwrapHistory EXCEPT !.startBalances = tokenBalances]
    /\ unwrapPc' = IF isInventoryManagementEnabled THEN "awaitBalances" ELSE "done"
    /\ UNCHANGED <<unwrapWorld, unwrapsRequired, unexecutedUnwraps, unwrapIndex,
                   executedUnwraps>>
    /\ UNCHANGED <<profitVars, inventoryVars, refundVars, rebalanceVars, bridgeVars, callerVars,
                   withdrawVars>>

\* The ETH balances are there: the unwraps are planned, and the execution loop
\* decrements the local WETH balance for the first and submits it.
EthBalancesArrive ==
    /\ unwrapPc = "awaitBalances"
    /\ LET lists == consideredUnwraps(unwrapWorld.chains, 1,
                                      [required |-> <<>>, unexecuted |-> <<>>])
       IN /\ unwrapsRequired' = lists.required
          /\ unexecutedUnwraps' = lists.unexecuted
          /\ IF lists.required = <<>>
             THEN /\ unwrapPc' = "done"
                  /\ UNCHANGED <<unwrapIndex, tokenBalances>>
             ELSE /\ unwrapPc' = "awaitUnwrap"
                  /\ unwrapIndex' = 1
                  /\ tokenBalances' = decrementLocalBalance(tokenBalances, lists.required[1])
    /\ UNCHANGED <<unwrapWorld, executedUnwraps, unwrapHistory>>
    /\ UNCHANGED <<tokenConfig, prioritizeLpUtilization, logDisabledManagement, tokenShortfalls,
                   outstandingTransfers, poolRebalanceRoutes, upcomingRefunds, runningBalances,
                   spokeTargets, bundleRefundsPromise, excessRunningBalancePromises>>
    /\ UNCHANGED <<profitVars, refundVars, rebalanceVars, bridgeVars, callerVars, withdrawVars>>

\* A getBalance call throws: the catch block logs the error and the pass ends.
EthBalancesFail ==
    /\ unwrapPc = "awaitBalances"
    /\ unwrapPc' = "done"
    /\ unwrapHistory' = [unwrapHistory EXCEPT !.caught = TRUE]
    /\ UNCHANGED <<unwrapWorld, unwrapsRequired, unexecutedUnwraps, unwrapIndex,
                   executedUnwraps>>
    /\ UNCHANGED <<profitVars, inventoryVars, refundVars, rebalanceVars, bridgeVars, callerVars,
                   withdrawVars>>

\* _unwrapWeth returns its receipt: the unwrap is recorded as executed, and the
\* loop decrements the local WETH balance for the next one and submits it.
UnwrapSent ==
    /\ unwrapPc = "awaitUnwrap"
    /\ executedUnwraps' = Append(executedUnwraps, unwrapsRequired[unwrapIndex])
    /\ IF unwrapIndex = Len(unwrapsRequired)
       THEN /\ unwrapPc' = "done"
            /\ UNCHANGED <<unwrapIndex, tokenBalances>>
       ELSE /\ unwrapIndex' = unwrapIndex + 1
            /\ tokenBalances' =
                   decrementLocalBalance(tokenBalances, unwrapsRequired[unwrapIndex + 1])
            /\ UNCHANGED unwrapPc
    /\ UNCHANGED <<unwrapWorld, unwrapsRequired, unexecutedUnwraps, unwrapHistory>>
    /\ UNCHANGED <<tokenConfig, prioritizeLpUtilization, logDisabledManagement, tokenShortfalls,
                   outstandingTransfers, poolRebalanceRoutes, upcomingRefunds, runningBalances,
                   spokeTargets, bundleRefundsPromise, excessRunningBalancePromises>>
    /\ UNCHANGED <<profitVars, refundVars, rebalanceVars, bridgeVars, callerVars, withdrawVars>>

\* _unwrapWeth throws: the catch block logs the error and the pass ends.
UnwrapFails ==
    /\ unwrapPc = "awaitUnwrap"
    /\ unwrapPc' = "done"
    /\ unwrapHistory' = [unwrapHistory EXCEPT !.caught = TRUE]
    /\ UNCHANGED <<unwrapWorld, unwrapsRequired, unexecutedUnwraps, unwrapIndex,
                   executedUnwraps>>
    /\ UNCHANGED <<profitVars, inventoryVars, refundVars, rebalanceVars, bridgeVars, callerVars,
                   withdrawVars>>

(***************************************************************************)
(* LineaWethBridge: finalization events of L1 -> L2 transfers              *)
(***************************************************************************)
MessageHashes == <<"h1", "h2", "h3", "h4">>
Relayer == "relayer"
SpokePool == "spokePool"

\* A MessageSent event of the L1 message service and a MessageClaimed event of
\* the L2 message service, with their places in the chains' logs.
MessageSent(hash, value, to, block) ==
    [messageHash |-> hash, value |-> value, to |-> to, blockNumber |-> block,
     transactionIndex |-> 0, logIndex |-> 0, transactionHash |-> <<"l1", hash>>]

MessageClaimed(hash, block) ==
    [messageHash |-> hash, blockNumber |-> block, transactionIndex |-> 1, logIndex |-> 2,
     transactionHash |-> <<"l2", hash>>]

\* L1 logs: none; a zero-value message and two transfers; one zero-value message;
\* a zero-value message to the spoke pool and a transfer to the relayer; a
\* transfer sent before the searched range and one in it.
L1Logs ==
    {<<>>,
     <<MessageSent("h1", 0, Relayer, 1), MessageSent("h2", 10, Relayer, 2),
       MessageSent("h3", 20, Relayer, 3)>>,
     <<MessageSent("h1", 0, Relayer, 1)>>,
     <<MessageSent("h1", 0, SpokePool, 1), MessageSent("h2", 10, Relayer, 2)>>,
     <<MessageSent("h2", 10, Relayer, 0), MessageSent("h3", 20, Relayer, 3)>>}

\* L2 logs: any of the four messages claimed, the i-th in block 6 * i.
L2Logs ==
    {SelectSeq([i \in DOMAIN MessageHashes |-> MessageClaimed(MessageHashes[i], 6 * i)],
               LAMBDA e : e.messageHash \in claimed) : claimed \in SUBSET SeqToSet(MessageHashes)}

BridgeQueries ==
    {[toAddress |-> to, eventConfig |-> [from |-> 6, to |-> 30]] : to \in {Relayer, SpokePool}}

NoBridgeQuery == [toAddress |-> Undefined, eventConfig |-> [from |-> 0, to |-> 0]]
NoBridgeEvents == [keyed |-> FALSE, events |-> <<>>]

\* l2Provider.getBlock(n).timestamp, with an L2 block every 2 seconds, and
\* getBlockForTimestamp on the hub chain, with an L1 block every 12 seconds.
L2BlockTimestamp(blockNumber) == blockNumber * 2
getBlockForTimestamp(timestamp) == timestamp \div 12

InRange(event, config) == config.from <= event.blockNumber /\ event.blockNumber <= config.to

\* paginatedEventQuery of MessageSent(undefined, toAddress) on the L1 bridge.
queryMessageSent(toAddress, config) ==
    SelectSeq(l1Log, LAMBDA e : e.to = toAddress /\ InRange(e, config))

\* paginatedEventQuery of MessageClaimed(hashes) on the L2 bridge: the results a
\* node can give. A list of alternatives for the topic selects the events with one
\* of them; what the empty list selects is up to the node, which may take it for
\* no alternative or, as go-ethereum does, for a wildcard.
queryMessageClaimed(hashes, config) ==
    LET inRange == SelectSeq(l2Log, LAMBDA e : InRange(e, config))
    IN IF hashes = <<>>
       THEN {<<>>, inRange}
       ELSE {SelectSeq(inRange, LAMBDA e : Includes(hashes, e.messageHash))}

\* initiatedQueryResult.filter(value > 0).map(messageHash)
RECURSIVE nonZeroMessageHashes(_)
nonZeroMessageHashes(initiated) ==
    IF initiated = <<>> THEN <<>>
    ELSE (IF Head(initiated).value > 0 THEN <<Head(initiated).messageHash>> ELSE <<>>)
         \o nonZeroMessageHashes(Tail(initiated))

\* events.map(finalized => the first initiation of the same hash, with the
\* finalization's coordinates, or undefined).filter(isDefined)
RECURSIVE matchedEvents(_, _)
matchedEvents(events, initiated) ==
    IF events = <<>> THEN <<>>
    ELSE LET finalized == Head(events)
             queryEvent == SelectSeq(initiated,
                                     LAMBDA i : i.messageHash = finalized.messageHash)
         IN (IF queryEvent = <<>> THEN <<>>
             ELSE <<[amount |-> queryEvent[1].value,
                     blockNumber |-> finalized.blockNumber,
                     txnIndex |-> finalized.transactionIndex,
                     logIndex |-> finalized.logIndex,
                     txnRef |-> finalized.transactionHash]>>)
            \o matchedEvents(Tail(events), initiated)

\* No finalization query.
BridgeIdle ==
    /\ l1Log = <<>>
    /\ l2Log = <<>>
    /\ bridgeArgs = NoBridgeQuery
    /\ bridgePc = "off"
    /\ l1SearchConfig = [from |-> 0, to |-> 0]
    /\ initiatedQueryResult = <<>>
    /\ internalMessageHashes = Undefined
    /\ bridgeResult = NoBridgeEvents

\* queryL2BridgeFinalizationEvents up to its first await, of the two L2 blocks.
QueryL2BridgeFinalizationEventsStarts ==
    /\ bridgePc = "idle"
    /\ bridgePc' = "awaitL2Blocks"
    /\ UNCHANGED <<l1Log, l2Log, bridgeArgs, l1SearchConfig, initiatedQueryResult,
                   internalMessageHashes, bridgeResult>>
    /\ UNCHANGED <<profitVars, inventoryVars, refundVars, rebalanceVars, callerVars, withdrawVars,
                   unwrapVars>>

\* The L2 blocks arrive; the hub-chain blocks of their timestamps are looked up.
L2BlocksArrive ==
    /\ bridgePc = "awaitL2Blocks"
    /\ bridgePc' = "awaitL1Blocks"
    /\ UNCHANGED <<l1Log, l2Log, bridgeArgs, l1SearchConfig, initiatedQueryResult,
                   internalMessageHashes, bridgeResult>>
    /\ UNCHANGED <<profitVars, inventoryVars, refundVars, rebalanceVars, callerVars, withdrawVars,
                   unwrapVars>>

\* The hub-chain blocks are found; the initiations in their range are queried.
L1BlocksFound ==
    /\ bridgePc = "awaitL1Blocks"
    /\ l1SearchConfig' =
           [from |-> getBlockForTimestamp(L2BlockTimestamp(bridgeArgs.eventConfig.from)),
            to |-> getBlockForTimestamp(L2BlockTimestamp(bridgeArgs.eventConfig.to))]
    /\ bridgePc' = "awaitInitiated"
    /\ UNCHANGED <<l1Log, l2Log, bridgeArgs, initiatedQueryResult, internalMessageHashes,
                   bridgeResult>>
    /\ UNCHANGED <<profitVars, inventoryVars, refundVars, rebalanceVars, callerVars, withdrawVars,
                   unwrapVars>>

\* The initiations arrive: with none of them the query returns {}, else the
\* finalizations of the hashes of the non-zero initiations are queried.
InitiationsArrive ==
    /\ bridgePc = "awaitInitiated"
    /\ LET initiated == queryMessageSent(bridgeArgs.toAddress, l1SearchConfig)
       IN /\ initiatedQueryResult' = initiated
          /\ IF Len(initiated) = 0
             THEN /\ bridgeResult' = NoBridgeEvents
                  /\ bridgePc' = "returned"
                  /\ UNCHANGED internalMessageHashes
             ELSE /\ internalMessageHashes' = nonZeroMessageHashes(initiated)
                  /\ bridgePc' = "awaitClaimed"
                  /\ UNCHANGED bridgeResult
    /\ UNCHANGED <<l1Log, l2Log, bridgeArgs, l1SearchConfig>>
    /\ UNCHANGED <<profitVars, inventoryVars, refundVars, rebalanceVars, callerVars, withdrawVars,
                   unwrapVars>>

\* The finalizations arrive and are matched with the initiations.
FinalizationsArrive ==
    /\ bridgePc = "awaitClaimed"
    /\ \E events \in queryMessageClaimed(internalMessageHashes, bridgeArgs.eventConfig) :
          bridgeResult' = [keyed |-> TRUE, events |-> matchedEvents(events, initiatedQueryResult)]
    /\ bridgePc' = "returned"
    /\ UNCHANGED <<l1Log, l2Log, bridgeArgs, l1SearchConfig, initiatedQueryResult,
                   internalMessageHashes>>
    /\ UNCHANGED <<profitVars, inventoryVars, refundVars, rebalanceVars, callerVars, withdrawVars,
                   unwrapVars>>

\* One queryL2BridgeFinalizationEvents call over given logs.
BridgeInit ==
    /\ ProfitIdle
    /\ InventoryIdle
    /\ l1Log \in L1Logs
    /\ l2Log \in L2Logs
    /\ bridgeArgs \in BridgeQueries
    /\ bridgePc = "idle"
    /\ l1SearchConfig = [from |-> 0, to |-> 0]
    /\ initiatedQueryResult = <<>>
    /\ internalMessageHashes = Undefined
    /\ bridgeResult = NoBridgeEvents
    /\ CallersIdle
    /\ WithdrawIdle
    /\ UnwrapIdle

BridgeNext ==
    \/ QueryL2BridgeFinalizationEventsStarts
    \/ L2BlocksArrive
    \/ L1BlocksFound
    \/ InitiationsArrive
    \/ FinalizationsArrive

SpecBridge == BridgeInit /\ [][BridgeNext]_vars

(***************************************************************************)
(* InventoryClient: the specifications of its calls                       *)
(***************************************************************************)
\* Concurrent calls on a fresh client with configured inventory.
CallersInit ==
    /\ ProfitIdle
    /\ RefundIdle
    /\ RebalanceIdle
    /\ BridgeIdle
    /\ CallersIdle
    /\ WithdrawIdle
    /\ UnwrapIdle
    /\ \E spoke \in {w \in SpokeWorlds : w.running = DefaultSpokeWorld.running} \cup
                    {w \in SpokeWorlds : ~w.prioritize} :
          InventoryConstructed(PlainConfig, DefaultWorld, spoke, Chains)

CallersNext ==
    \/ \E i \in CallerIds : CallerStarts(i)
    \/ AllBundleRefundsReturn
    \/ AllBundleRefundsFail
    \/ \E i \in CallerIds : CallerGetsBundleRefunds(i)
    \/ RunningBalancesSettle
    \/ \E i \in CallerIds : CallerGetsRunningBalances(i)
    \/ \E i \in CallerIds : CallerEnds(i)
    \/ InventoryUpdate

SpecCallers == CallersInit /\ [][CallersNext]_vars

\* One determineRefundChainId call on a fresh client. A call that ends before it
\* reads a balance starts from the default world.
RefundInit ==
    /\ ProfitIdle
    /\ RebalanceIdle
    /\ deposit \in RefundDeposits
    /\ refundPc = "idle"
    /\ refundLocals = NoLocals
    /\ refundResult = NoResult
    /\ \E config \in {DisabledConfig} \cup EnabledConfigs, world \in Worlds,
          spoke \in SpokeWorlds, routes \in RouteSets :
          /\ (\/ config = DisabledConfig
              \/ deposit.outputTokenInvalid
              \/ ~deposit.outputMapsToInputL1Token) =>
                 /\ world = DefaultWorld
                 /\ spoke = DefaultSpokeWorld
                 /\ deposit.inputAmount = 5
          /\ InventoryConstructed(config, world, spoke, routes)
    /\ BridgeIdle
    /\ CallersIdle
    /\ WithdrawIdle
    /\ UnwrapIdle

RefundNext ==
    \/ DetermineRefundChainIdStarts
    \/ BundleRefundsArrive
    \/ ExcessRunningBalancesArrive

SpecRefund == RefundInit /\ [][RefundNext]_vars

\* One determineRefundChainId call on a client that served a call before: the
\* promises of that call are stored and resolved, the running balances with the
\* slow-withdrawal chains of then, when the hub pool had a route to every chain.
LaterCallInit ==
    /\ ProfitIdle
    /\ RebalanceIdle
    /\ deposit \in RefundDeposits
    /\ refundPc = "idle"
    /\ refundLocals = NoLocals
    /\ refundResult = NoResult
    /\ \E config \in EnabledConfigs \ {OtherTokenConfig}, world \in Worlds,
          spoke \in {w \in SpokeWorlds : w.prioritize}, routes \in RouteSets :
          /\ (deposit.outputTokenInvalid \/ ~deposit.outputMapsToInputL1Token) =>
                 /\ world = DefaultWorld
                 /\ spoke = DefaultSpokeWorld
                 /\ deposit.inputAmount = 5
          /\ tokenConfig = config
          /\ prioritizeLpUtilization = spoke.prioritize
          /\ logDisabledManagement = FALSE
          /\ tokenBalances = world.balances
          /\ tokenShortfalls = world.shortfalls
          /\ outstandingTransfers = world.outstanding
          /\ upcomingRefunds = world.refunds
          /\ runningBalances = spoke.running
          /\ spokeTargets = spoke.targets
          /\ poolRebalanceRoutes = routes
          /\ bundleRefundsPromise = "resolved"
          /\ excessRunningBalancePromises =
                 [t \in {L1Token} |->
                     [state |-> "resolved",
                      value |-> getLatestRunningBalances(
                                    L1Token,
                                    FilterSeq(SlowWithdrawalChains,
                                              {c \in Chains :
                                                  l1TokenEnabledForChain(L1Token, c)}))]]
    /\ BridgeIdle
    /\ CallersIdle
    /\ WithdrawIdle
    /\ UnwrapIdle

SpecLaterCall == LaterCallInit /\ [][RefundNext]_vars

\* Targets of 25%, 20% and 15% for chains 2, 3 and 4 and of 60% for chain 5.
SpreadConfig ==
    [t \in {L1Token} |->
        [alias |-> FALSE,
         chains |-> [c \in {2, 3, 4, 5} |->
                        IF c = 2 THEN BalanceConfig(250, 200)
                        ELSE IF c = 3 THEN BalanceConfig(200, 150)
                        ELSE IF c = 4 THEN BalanceConfig(150, 100)
                        ELSE BalanceConfig(600, 500)]]]

RebalanceConfigs == {DisabledConfig, PlainConfig, AliasConfig, SpreadConfig, OtherTokenConfig}

\* Balances of both tokens, shortfalls and pending transfers a pass can start
\* from.
AmountsOf(canonicalByChain, bridgedByChain) ==
    [k \in Chains \X L2Tokens |->
        IF k[2] = CanonicalToken THEN canonicalByChain[k[1]] ELSE bridgedByChain[k[1]]]

RebalanceWorlds ==
    {[balances |-> NoAmounts, shortfalls |-> NoAmounts, outstanding |-> NoAmounts],
     [balances |-> CanonicalAmounts(<<80, 0, 0, 0, 120>>), shortfalls |-> NoAmounts,
      outstanding |-> NoAmounts],
     [balances |-> HubHeavy, shortfalls |-> NoAmounts, outstanding |-> NoAmounts],
     [balances |-> HubHeavy, shortfalls |-> CanonicalAmounts(<<0, 40, 0, 0, 10>>),
      outstanding |-> CanonicalAmounts(<<0, 0, 5, 0, 0>>)],
     [balances |-> L2Heavy, shortfalls |-> NoAmounts, outstanding |-> NoAmounts],
     [balances |-> L2Heavy, shortfalls |-> CanonicalAmounts(<<0, 0, 0, 0, 100>>),
      outstanding |-> CanonicalAmounts(<<0, 30, 0, 0, 0>>)],
     [balances |-> AmountsOf(<<60, 20, 5, 0, 0>>, <<0, 0, 0, 10, 15>>),
      shortfalls |-> AmountsOf(<<0, 0, 0, 0, 0>>, <<0, 0, 0, 0, 25>>),
      outstanding |-> AmountsOf(<<0, 0, 0, 0, 0>>, <<0, 0, 0, 5, 0>>)]}

\* One rebalance pass on a client whose token client has just been updated.
RebalanceInit ==
    /\ ProfitIdle
    /\ RefundIdle
    /\ rebalancePc = "idle"
    /\ rebalancesRequired = <<>>
    /\ planIndex = 0
    /\ possibleRebalances = <<>>
    /\ unexecutedRebalances = <<>>
    /\ executedTransactions = <<>>
    /\ passHistory = [startBalance |-> 0, startCumulative |-> 0, considered |-> 0,
                     skipped |-> {}, caught |-> FALSE, failedSubmission |-> 0,
                     startOutstanding |-> 0, errorLog |-> NoErrorLog,
                     finalized |-> {}]
    /\ \E config \in RebalanceConfigs, world \in RebalanceWorlds :
          InventoryConstructed(config,
                               [balances |-> world.balances, shortfalls |-> world.shortfalls,
                                outstanding |-> world.outstanding, refunds |-> NoneByChain],
                               DefaultSpokeWorld, Chains)
    /\ BridgeIdle
    /\ CallersIdle
    /\ WithdrawIdle
    /\ UnwrapIdle

RebalanceNext ==
    \/ RebalanceStarts
    \/ HubBalanceRead
    \/ HubBalanceReadFails
    \/ TransferSent
    \/ TransferFails

SpecRebalance == RebalanceInit /\ [][RebalanceNext]_vars

\* One rebalance pass and the later finalization of the transfers it submitted.
TransfersNext ==
    \/ RebalanceNext
    \/ TransferFinalized

SpecTransfers == RebalanceInit /\ [][TransfersNext]_vars

\* One rebalance pass with a failure possible at each of its stages.
PassNext ==
    \/ RebalanceNext
    \/ PlanningFails
    \/ ReportFails

SpecPass == RebalanceInit /\ [][PassNext]_vars

\* Configurations with withdrawExcessPeriod set: by chain, with chain 4 left
\* without a period; by L2 token, with both tokens of chain 4 configured; and one
\* whose overage buffer times 0.95 is below 1.
WithdrawChainConfig ==
    [t \in {L1Token} |->
        [alias |-> FALSE,
         chains |-> [c \in {2, 3, 4, 5} |->
                        IF c = 2 THEN WithdrawBalanceConfig(200, 150, 1500)
                        ELSE IF c = 3 THEN WithdrawBalanceConfig(333, 150, 1500)
                        ELSE IF c = 4 THEN BalanceConfigWithBuffer(200, 150, 1500)
                        ELSE WithdrawBalanceConfig(100, 50, 1500)]]]

WithdrawAliasConfig ==
    [t \in {L1Token} |->
        [alias |-> TRUE,
         tokens |-> [k \in L2Tokens |->
                        IF k = CanonicalToken
                        THEN [c \in {2, 4} |-> WithdrawBalanceConfig(200, 150, 1500)]
                        ELSE [c \in {4} |-> WithdrawBalanceConfig(100, 50, 1500)]]]]

WithdrawLowBufferConfig ==
    [t \in {L1Token} |->
        [alias |-> FALSE,
         chains |-> [c \in {2, 5} |-> WithdrawBalanceConfig(200, 150, 1000)]]]

WithdrawConfigs == {WithdrawChainConfig, WithdrawAliasConfig, WithdrawLowBufferConfig}

\* Balances a withdrawal pass can start from: most on chains 2 and 5, most on
\* chain 3, nothing anywhere, and both tokens held on chain 4.
WithdrawBalances ==
    {AmountsOf(<<10, 60, 0, 10, 30>>, NoneByChain),
     AmountsOf(<<10, 20, 900, 10, 0>>, NoneByChain),
     NoAmounts,
     AmountsOf(<<10, 60, 0, 40, 0>>, <<0, 0, 0, 30, 0>>)}

\* What the adapters answer: the chains with an L2 bridge for the token, and the
\* pending withdrawal volume, one amount for chain 2 and one for the others.
WithdrawWorlds ==
    {[supported |-> chains,
      pending |-> [pair \in Chains \X L2Tokens |-> IF pair[1] = 2 THEN a ELSE b]] :
        chains \in {Chains \ {HubChain}, Chains \ {HubChain, 5}},
        a \in {0, 8, 9, 50}, b \in {0, 3, 4, 50}}

\* One withdrawExcessBalances pass.
WithdrawInit ==
    /\ ProfitIdle
    /\ RefundIdle
    /\ RebalanceIdle
    /\ BridgeIdle
    /\ CallersIdle
    /\ UnwrapIdle
    /\ \E config \in WithdrawConfigs, balances \in WithdrawBalances :
          InventoryConstructed(config,
                               [balances |-> balances, shortfalls |-> NoAmounts,
                                outstanding |-> NoAmounts, refunds |-> NoneByChain],
                               DefaultSpokeWorld, Chains)
    /\ withdrawPc = "idle"
    /\ withdrawWorld \in WithdrawWorlds
    /\ pendingAsked = {}
    /\ withdrawalsRequired = NoWithdrawals
    /\ withdrawalsInFlight = {}
    /\ txnReceipts = NoWithdrawals
    /\ withdrawHistory = NoWithdrawHistory

WithdrawNext ==
    \/ WithdrawExcessBalancesStarts
    \/ PendingWithdrawalAmountArrives
    \/ PendingWithdrawalAmountFails
    \/ WithdrawalSubmitted
    \/ WithdrawalFails

SpecWithdraw == WithdrawInit /\ [][WithdrawNext]_vars

\* The chains unwrapWeth looks at, with threshold and target, and the ETH
\* balances it can find: below the threshold on some chains, above on others.
UnwrapChains ==
    [i \in 1..3 |-> [chainId |-> ChainIdList[i + 1], unwrapWethThreshold |-> 5,
                     unwrapWethTarget |-> 10, balance |-> 0]]
UnwrapWorlds ==
    {[chains |-> UnwrapChains,
      balance |-> [c \in Chains |-> IF c = 2 THEN a ELSE IF c = 3 THEN b ELSE d]] :
        a \in {2, 8}, b \in {1, 4, 7}, d \in {0, 3, 9}}

\* One unwrapWeth pass.
UnwrapInit ==
    /\ ProfitIdle
    /\ RefundIdle
    /\ RebalanceIdle
    /\ BridgeIdle
    /\ CallersIdle
    /\ WithdrawIdle
    /\ \E config \in {PlainConfig, DisabledConfig}, balances \in WithdrawBalances :
          InventoryConstructed(config,
                               [balances |-> balances, shortfalls |-> NoAmounts,
                                outstanding |-> NoAmounts, refunds |-> NoneByChain],
                               DefaultSpokeWorld, Chains)
    /\ unwrapPc = "idle"
    /\ unwrapWorld \in UnwrapWorlds
    /\ unwrapsRequired = <<>>
    /\ unexecutedUnwraps = <<>>
    /\ unwrapIndex = 0
    /\ executedUnwraps = <<>>
    /\ unwrapHistory = NoUnwrapHistory

UnwrapNext ==
    \/ UnwrapWethStarts
    \/ EthBalancesArrive
    \/ EthBalancesFail
    \/ UnwrapSent
    \/ UnwrapFails

SpecUnwrap == UnwrapInit /\ [][UnwrapNext]_vars

\* One pass of one of the three planners: transfers to the L2 chains, WETH
\* unwraps, withdrawals of excess balances.
PlannersInit == RebalanceInit \/ UnwrapInit \/ WithdrawInit

PlannersNext == PassNext \/ UnwrapNext \/ WithdrawNext

SpecPlanners == PlannersInit /\ [][PlannersNext]_vars

(***************************************************************************)
(* Specifications                                                          *)
(***************************************************************************)
\* update() alone, over MaxTicks ticks.
UpdateInit ==
    /\ ProfitInit
    /\ InventoryIdle
    /\ isTestnet = FALSE
    /\ envMinFee = 0
    /\ BridgeIdle
    /\ CallersIdle
    /\ WithdrawIdle
    /\ UnwrapIdle

UpdateNext ==
    \/ ProfitUpdateStart(MaxTicks)
    \/ PriceFeedReturns
    \/ PriceFeedFails
    \/ \E c \in ProfitChains : GasSimReturns(c)

SpecUpdate == UpdateInit /\ [][UpdateNext]_vars

\* update() over MaxTicks ticks, with isFillProfitable called between its steps.
GasCacheNext ==
    \/ UpdateNext
    \/ CallIsFillProfitable
    \/ CallResultConsumed

SpecGasCache == UpdateInit /\ [][GasCacheNext]_vars

\* A ProfitClient constructed with any admitted padding and multipliers.
ScalingInit ==
    /\ InventoryIdle
    /\ isTestnet = FALSE
    /\ gasCfg \in ScalingCfgs
    /\ envMinFee = 0
    /\ minRelayerFees = EmptyMap
    /\ tokenSymbolMap = EmptyMap
    /\ tokenPrices = EmptyMap
    /\ totalGasCosts = EmptyMap
    /\ tick = 0
    /\ updatePc = "idle"
    /\ pricePc = "idle"
    /\ gasPc = [c \in ProfitChains |-> "idle"]
    /\ priceTick = 0
    /\ gasTick = [c \in ProfitChains |-> 0]
    /\ gasSim = [c \in ProfitChains |-> "none"]
    /\ call = NoCall
    /\ BridgeIdle
    /\ CallersIdle
    /\ WithdrawIdle
    /\ UnwrapIdle

\* One update() interleaved with estimateFillCost calls.
ScalingNext ==
    \/ ProfitUpdateStart(MaxProfitTicks)
    \/ PriceFeedReturns
    \/ PriceFeedFails
    \/ \E c \in ProfitChains : GasSimReturns(c)
    \/ CallEstimateFillCost
    \/ CallResultConsumed

SpecScaling == ScalingInit /\ [][ScalingNext]_vars

\* A ProfitClient after construction, on mainnet or a testnet.
ConsumerInit ==
    ProfitInit /\ InventoryIdle /\ BridgeIdle /\ CallersIdle /\ WithdrawIdle /\ UnwrapIdle

\* One update() interleaved with consumer calls.
ProfitNext ==
    \/ ProfitUpdateStart(MaxProfitTicks)
    \/ PriceFeedReturns
    \/ PriceFeedFails
    \/ \E c \in ProfitChains : GasSimReturns(c)
    \/ CallGetPriceOfToken
    \/ CallIsFillProfitable
    \/ CallResultConsumed

SpecProfit == ConsumerInit /\ [][ProfitNext]_vars

(***************************************************************************)
(* InventoryClient: properties of allocations and of the rebalance pass    *)
(***************************************************************************)
\* The (chain, L2 token) pairs the inventory counts for the L1 token.
TrackedTokens ==
    {k \in Chains \X L2Tokens : Includes(getRemoteTokensForL1Token(L1Token, k[1]), k[2])}

\* C4 (as stated): getCurrentAllocationPct is between 0 and 10^18 for every
\* combination of balances, pending transfers and shortfalls, and 0 when the
\* cumulative balance is 0.
C4_AllocationWithinUnitInterval ==
    \A k \in TrackedTokens :
        LET pct == getCurrentAllocationPct(L1Token, k[1], k[2])
        IN /\ 0 <= pct /\ pct <= FixedPoint
           /\ getCumulativeBalance(L1Token) = 0 => pct = 0

\* C4 (amended): for every L2 token the inventory counts on a chain,
\* getCurrentAllocationPct is at most 10^18; it is 0 when the cumulative balance
\* is 0, at least 0 when the shortfall is no more than the chain's virtual balance
\* of the token, and at most 0 (negative once the deficit is large enough) when
\* the shortfall exceeds it. It is the truncated quotient of
\* (virtual balance - shortfall) * 10^18 by the cumulative balance.
C4_AllocationAtMostOne ==
    \A k \in TrackedTokens :
        LET pct == getCurrentAllocationPct(L1Token, k[1], k[2])
            cumulative == getCumulativeBalance(L1Token)
            net == getBalanceOnChain(k[1], L1Token, k[2]) - ShortfallInL1Decimals(k[1], k[2])
        IN /\ pct <= FixedPoint
           /\ cumulative = 0 => pct = 0
           /\ net >= 0 => pct >= 0
           /\ net < 0 => pct <= 0
           /\ (cumulative > 0 /\ net * FixedPoint <= -cumulative) => pct < 0
           /\ (cumulative > 0 /\ net >= 0) =>
                  pct * cumulative <= net * FixedPoint /\ net * FixedPoint < (pct + 1) * cumulative

\* getPossibleRebalances has planned for a chain whose allocation is negative.
C4_Witness ==
    \E i \in DOMAIN rebalancesRequired :
        /\ rebalancesRequired[i].currentAllocPct < 0
        /\ rebalancesRequired[i].amount > 0

PlanAmounts == [i \in DOMAIN rebalancesRequired |-> rebalancesRequired[i].amount]
PlanAccepted(i) == Includes(possibleRebalances, rebalancesRequired[i])
PlanUnexecutable(i) == Includes(unexecutedRebalances, rebalancesRequired[i])
ConsideredPlans == 1..passHistory.considered
AcceptedPlans == {i \in DOMAIN rebalancesRequired : PlanAccepted(i)}

\* The hub balance of the start of the pass less the accepted plans before plan i.
BalanceLeftBefore(i) ==
    passHistory.startBalance - SumOver(PlanAmounts, {j \in AcceptedPlans : j < i})

\* C5 (as stated): a plan is accepted iff its amount is <= the balance left after
\* the earlier accepted plans, a plan that does not fit is recorded as
\* unexecutable and the later plans are still considered, and the accepted amounts
\* sum to at most the hub balance at the start of the pass.
C5_AcceptedIffFits ==
    /\ \A i \in ConsideredPlans :
          /\ PlanAccepted(i) <=> rebalancesRequired[i].amount <= BalanceLeftBefore(i)
          /\ PlanUnexecutable(i) <=> rebalancesRequired[i].amount > BalanceLeftBefore(i)
    /\ SumOver(PlanAmounts, AcceptedPlans) <= passHistory.startBalance

\* C5 (amended): a plan is accepted iff its amount is <= the balance left after
\* the earlier accepted plans and the hub balance re-read on chain equals the
\* balance recorded in the plan; a plan that fits but whose balance changed is
\* skipped (neither accepted nor unexecutable); a plan that does not fit is
\* recorded as unexecutable; later plans are considered in either case, the
\* accepted plans keep the plan order, and the accepted amounts sum to at most
\* the hub balance at the start of the pass, which the local hub balance is
\* reduced by.
C5_AcceptedIffFitsAndUnchanged ==
    /\ \A i \in ConsideredPlans :
          LET fits == rebalancesRequired[i].amount <= BalanceLeftBefore(i)
          IN /\ PlanAccepted(i) <=> (fits /\ i \notin passHistory.skipped)
             /\ PlanUnexecutable(i) <=> ~fits
             /\ i \in passHistory.skipped => fits
    /\ \A i \in (DOMAIN rebalancesRequired) \ ConsideredPlans :
          ~PlanAccepted(i) /\ ~PlanUnexecutable(i)
    /\ possibleRebalances = FilterSeq(rebalancesRequired, SeqToSet(possibleRebalances))
    /\ unexecutedRebalances = FilterSeq(rebalancesRequired, SeqToSet(unexecutedRebalances))
    /\ SumOver(PlanAmounts, AcceptedPlans) <= passHistory.startBalance
    /\ rebalancePc # "idle" /\ isInventoryManagementEnabled =>
          tokenBalances[<<HubChain, L1Token>>] =
              passHistory.startBalance - SumOver(PlanAmounts, AcceptedPlans)

\* Plans of 50, 40 and 30 against a hub balance of 80: 50 and 30 were accepted and
\* sent, 40 was recorded as unexecutable.
C5_Witness ==
    /\ rebalancePc = "done"
    /\ passHistory.startBalance = 80
    /\ PlanAmounts = <<50, 40, 30>>
    /\ AcceptedPlans = {1, 3}
    /\ PlanUnexecutable(2)
    /\ Len(executedTransactions) = 2

(***************************************************************************)
(* InventoryClient: properties of the repayment chain selection            *)
(***************************************************************************)
RefundReturned == refundPc = "returned"
OriginForced == depositForcesOriginChainRepayment(deposit)

\* C1: for a deposit that forces origin repayment and whose origin cannot be
\* rebalanced quickly, determineRefundChainId returns [origin] or the empty list
\* and never the hub; with inventory management enabled it returns [origin] only
\* if the origin passed the allocation check.
C1_ForcedOriginOrNothing ==
    (RefundReturned /\ OriginForced /\ ~repaymentChainCanBeQuicklyRebalanced(deposit)) =>
        /\ refundResult.chains \in {<<deposit.originChainId>>, <<>>}
        /\ ~Includes(refundResult.chains, HubChain)
        /\ (isInventoryManagementEnabled /\ ~deposit.outputTokenInvalid
                /\ refundResult.chains = <<deposit.originChainId>>) =>
               evaluateChain(deposit, deposit.originChainId, refundLocals) = "push"

\* A forced deposit whose origin is configured and over-allocated gets no chain.
C1_Witness ==
    /\ RefundReturned /\ deposit.fromLiteChain
    /\ ~repaymentChainCanBeQuicklyRebalanced(deposit)
    /\ bundleRefundsPromise = "resolved"
    /\ l1TokenEnabledForChain(L1Token, deposit.originChainId)
    /\ evaluateChain(deposit, deposit.originChainId, refundLocals) = "skip"
    /\ refundResult.chains = <<>>

\* C2 (as stated): whenever origin repayment is not forced, the hub chain is in
\* the list determineRefundChainId returns, for every deposit and configuration.
C2_HubWheneverNotForced ==
    (RefundReturned /\ ~OriginForced) => Includes(refundResult.chains, HubChain)

\* C2 (amended): whenever origin repayment is not forced, the output token is
\* valid and inventory management is enabled, the hub chain is in the list
\* determineRefundChainId returns; for an invalid output token the list is empty,
\* and with inventory management disabled it is the one chain [destination] or
\* [origin].
C2_HubWhenEnabledAndNotForced ==
    RefundReturned =>
        /\ (~OriginForced /\ ~deposit.outputTokenInvalid /\ isInventoryManagementEnabled) =>
               Includes(refundResult.chains, HubChain)
        /\ deposit.outputTokenInvalid => refundResult.chains = <<>>
        /\ (~deposit.outputTokenInvalid /\ ~isInventoryManagementEnabled) =>
               refundResult.chains \in {<<deposit.destinationChainId>>, <<deposit.originChainId>>}

\* Destination and origin were evaluated and found over-allocated: only the hub
\* is returned.
C2_Witness ==
    /\ RefundReturned /\ ~OriginForced
    /\ deposit.destinationChainId # HubChain
    /\ deposit.originChainId \notin {HubChain, deposit.destinationChainId}
    /\ evaluateChain(deposit, deposit.destinationChainId, refundLocals) = "skip"
    /\ evaluateChain(deposit, deposit.originChainId, refundLocals) = "skip"
    /\ refundResult.chains = <<HubChain>>

\* Destination repayment is valid for the deposit: origin repayment is not forced
\* and the hub pool has a route for the input token on the origin and for its L1
\* token on the destination.
DestinationRepaymentValid ==
    /\ ~OriginForced
    /\ deposit.originChainId \in poolRebalanceRoutes
    /\ deposit.destinationChainId \in poolRebalanceRoutes

\* No refund or running-balance fetch was started and no balance was read.
NothingConsulted ==
    /\ bundleRefundsPromise = Undefined
    /\ excessRunningBalancePromises = EmptyMap
    /\ refundLocals = NoLocals

\* C3 (as stated): with inventory management disabled determineRefundChainId
\* returns [destination] if destination repayment is valid and [origin] otherwise,
\* consulting no balance, refund or allocation data.
C3_DisabledDestinationOrOrigin ==
    (refundPc \in {"returned", "threw"} /\ ~isInventoryManagementEnabled) =>
        /\ refundResult = Returned(<<IF DestinationRepaymentValid
                                     THEN deposit.destinationChainId
                                     ELSE deposit.originChainId>>)
        /\ NothingConsulted

\* C3 (amended): with inventory management disabled determineRefundChainId
\* returns the empty list for a deposit with an invalid output token, and for any
\* other deposit [destination] if destination repayment is valid and [origin]
\* otherwise; no balance, refund or allocation data is consulted.
C3_DisabledValidOutputDestinationOrOrigin ==
    (refundPc \in {"returned", "threw"} /\ ~isInventoryManagementEnabled) =>
        /\ refundResult =
               IF deposit.outputTokenInvalid THEN Returned(<<>>)
               ELSE Returned(<<IF DestinationRepaymentValid
                               THEN deposit.destinationChainId
                               ELSE deposit.originChainId>>)
        /\ NothingConsulted
        /\ ~deposit.outputTokenInvalid => logDisabledManagement

\* Disabled, with the destination returned for a deposit from another chain, and
\* with the origin returned because the destination has no route.
C3_Witness ==
    /\ RefundReturned /\ ~isInventoryManagementEnabled
    /\ ~deposit.outputTokenInvalid
    /\ deposit.originChainId # deposit.destinationChainId
    /\ refundResult.chains = <<deposit.destinationChainId>>

(***************************************************************************)
(* ProfitClient: properties                                                *)
(***************************************************************************)
PricesFromThisTick == priceTick = tick
GasCostsFromThisTick == \A c \in ProfitChains : gasTick[c] = tick
GasCostsFromEarlierTick == \A c \in ProfitChains : gasTick[c] < tick

\* C6 (as stated): in every state a consumer can read, tokenPrices and
\* totalGasCosts are both from the tick of the last update() or both from an
\* earlier one, never one updated and the other not.
C6_CachesNeverMixed ==
    \/ PricesFromThisTick /\ GasCostsFromThisTick
    \/ ~PricesFromThisTick /\ GasCostsFromEarlierTick

\* C6 (amended): update() awaits both updates: when the promise it returned has
\* resolved, tokenPrices and every chain's totalGasCosts entry were written by
\* this update(), and no branch of it is still running.
C6_ResolvedMeansBothUpdated ==
    updatePc = "resolved" =>
        /\ PricesFromThisTick /\ GasCostsFromThisTick
        /\ pricePc = "done" /\ \A c \in ProfitChains : gasPc[c] = "done"

\* The second update() has resolved.
C6_Witness == updatePc = "resolved" /\ tick = MaxTicks /\ tick > 1

IsFillCall == call.op = "isFillProfitable"

\* The gas cost isFillProfitable obtained for the deposit came from a simulation
\* that succeeded: the one run for this call, or the chain's cached one.
GasSimulationSucceeded ==
    \/ call.sim = "ok"
    \/ /\ UsesCachedGasCost(call.deposit)
       /\ totalGasCosts[call.deposit.destinationChainId].nativeGasCost < Uint256Max

\* C7 (as stated): on a testnet isFillProfitable returns profitable = true whenever
\* the gas simulation for the deposit succeeded, whatever the prices in the cache.
C7_TestnetProfitableWheneverSimulated ==
    (IsFillCall /\ isTestnet /\ GasSimulationSucceeded) => call.result.profitable

\* The profitability computation of the call has what it needs to return: both
\* tokens and the gas token resolve, the input is worth more than 0 USD and the
\* gas token has a price.
FillComputable ==
    LET d == call.deposit
        inputPrice == getPriceOfToken(d.inputSymbol)
        outputPrice == getPriceOfToken(d.outputSymbol)
        gasTokenPrice == getPriceOfToken(GasTokenSymbol)
    IN /\ ~inputPrice.threw
       /\ ~outputPrice.threw
       /\ ~gasTokenPrice.threw
       /\ amountUsd(d.inputAmount, d.inputSymbol, inputPrice.price) > 0
       /\ gasTokenPrice.price > 0

\* C7 (amended): on a testnet isFillProfitable returns profitable = true whenever
\* the gas simulation succeeded and the profitability computation can return
\* (tokens resolve, input value > 0 USD, gas token price > 0), whatever the
\* computed profitability; when the computation throws it returns false.
C7_TestnetProfitableWhenComputed ==
    (IsFillCall /\ isTestnet) =>
        /\ (GasSimulationSucceeded /\ FillComputable) =>
               call.result.profitable /\ call.result.nativeGasCost < Uint256Max
        /\ call.fill.threw => ~call.result.profitable

\* A fill computed as unprofitable is returned as profitable on a testnet.
C7_Witness ==
    /\ IsFillCall /\ isTestnet /\ call.sim = "ok"
    /\ ~call.fill.threw /\ ~call.fill.profitable
    /\ call.result.profitable

Uint256MaxTriple ==
    [nativeGasCost |-> Uint256Max, tokenGasCost |-> Uint256Max, gasPrice |-> Uint256Max]

\* C8: when the simulation of the deposit fails, _getTotalGasCost returns the
\* uint256Max triple, and isFillProfitable returns profitable = false together
\* with that triple (the testnet relaxation does not apply: the native gas cost
\* is not below uint256Max).
C8_SimulationFailureIsUnprofitable ==
    (IsFillCall /\ call.sim = "fail") =>
        /\ getTotalGasCostUncached(call.sim) = Uint256MaxTriple
        /\ ~call.result.profitable
        /\ call.result.nativeGasCost = Uint256Max
        /\ call.result.tokenGasCost = Uint256Max
        /\ call.result.gasPrice = Uint256Max

\* A deposit whose prices are known and whose simulation failed.
C8_Witness ==
    /\ IsFillCall /\ call.sim = "fail" /\ ~isTestnet
    /\ getPriceOfToken(call.deposit.inputSymbol).price > 0
    /\ ~call.result.profitable
    /\ call.result.nativeGasCost = Uint256Max

\* The deposit's effective output amount is 0.
ZeroOutput(d) ==
    \/ d.outputAmount = 0
    \/ d.hasUpdatedOutputAmount /\ d.updatedOutputAmount = 0

\* C9 (as stated): when the effective output amount is 0, calculateFillProfitability
\* yields netRelayerFeePct = 0 and profitable = false for every minimum fee.
C9_ZeroOutputNeverProfitable ==
    (IsFillCall /\ ~call.fill.threw /\ ZeroOutput(call.deposit)) =>
        call.fill.netRelayerFeePct = 0 /\ ~call.fill.profitable

\* C9 (amended): when the effective output amount is 0, calculateFillProfitability
\* yields netRelayerFeePct = 0, and profitable exactly when both prices are
\* positive and the minimum relayer fee is <= 0: it yields profitable = false
\* for every minimum fee above 0.
C9_ZeroOutputProfitableIffNoMinimum ==
    (IsFillCall /\ ~call.fill.threw /\ ZeroOutput(call.deposit)) =>
        /\ call.fill.netRelayerFeePct = 0
        /\ call.fill.outputAmountUsd = 0
        /\ call.fill.profitable <=>
               /\ call.minRelayerFeePct <= 0
               /\ call.fill.inputTokenPriceUsd > 0
               /\ call.fill.outputTokenPriceUsd > 0

\* A zero-output deposit with positive prices and a positive minimum fee.
C9_Witness ==
    /\ IsFillCall /\ ~call.fill.threw /\ ZeroOutput(call.deposit)
    /\ call.deposit.outputAmount > 0
    /\ call.minRelayerFeePct > 0
    /\ call.fill.inputTokenPriceUsd > 0 /\ call.fill.outputTokenPriceUsd > 0
    /\ ~call.fill.profitable

IsPriceCall == call.op = "getPriceOfToken"

\* The token has no price in the cache: its symbol is not known, or the address
\* it resolves to has no entry in tokenPrices.
HasNoPrice(token) ==
    LET resolved == resolveTokenAddress(token)
    IN resolved.threw \/ resolved.address \notin DOMAIN tokenPrices

\* C10 (as stated): for a token without a price getPriceOfToken returns 0 without
\* throwing, and a deposit whose input or output price is 0 is reported as not
\* profitable.
C10_MissingPriceIsZero ==
    /\ (IsPriceCall /\ HasNoPrice(call.token)) =>
           ~call.result.threw /\ call.result.price = 0
    /\ (IsFillCall /\ ~call.fill.threw
            /\ (call.fill.inputTokenPriceUsd = 0 \/ call.fill.outputTokenPriceUsd = 0)) =>
           ~call.fill.profitable

\* A symbol tokenSymbolMap holds neither under its remapped nor under its own name.
UnknownSymbol(token) ==
    /\ token \in Symbols
    /\ RemappedSymbol(token) \notin DOMAIN tokenSymbolMap
    /\ token \notin DOMAIN tokenSymbolMap

\* The price a lookup of the token gives, 0 when there is none.
PriceOrZero(token) ==
    LET looked == getPriceOfToken(token) IN IF looked.threw THEN 0 ELSE looked.price

\* C10 (amended): getPriceOfToken throws for a symbol that tokenSymbolMap does
\* not hold, and returns 0 with a warning for an address (given, or resolved
\* from a symbol) without an entry in tokenPrices. A deposit whose input or output
\* token has no price or price 0 is never computed as profitable:
\* calculateFillProfitability throws or yields profitable = false, and off
\* testnets isFillProfitable returns profitable = false.
C10_MissingPriceThrowsOrZero ==
    /\ IsPriceCall =>
           /\ call.result.threw <=> UnknownSymbol(call.token)
           /\ (~call.result.threw /\ HasNoPrice(call.token)) =>
                  call.result.price = 0 /\ call.result.warned
    /\ (IsFillCall /\ (PriceOrZero(call.deposit.inputSymbol) = 0
                          \/ PriceOrZero(call.deposit.outputSymbol) = 0)) =>
           /\ call.fill.threw \/ ~call.fill.profitable
           /\ ~isTestnet => ~call.result.profitable

\* A lookup by an address without a price returned 0 with a warning, while a
\* lookup by a symbol not in the map throws.
C10_Witness ==
    /\ IsPriceCall /\ call.token = "aXYZ"
    /\ call.result = [threw |-> FALSE, price |-> 0, warned |-> TRUE]
    /\ getPriceOfToken("XYZ").threw
    /\ tick > 0

IsCostCall == call.op = "estimateFillCost"

\* C11 (as stated): tokenGasCost = floor(raw * gasPadding * gasMultiplier / 10^36)
\* and nativeGasCost = floor(raw * gasPadding / 10^18), the multiplier being the
\* message multiplier for a deposit with a message.
C11_ScalingInOneDivision ==
    (IsCostCall /\ ~call.result.threw) =>
        LET multiplier == IF call.deposit.messageEmpty
                          THEN gasCfg.gasMultiplier ELSE gasCfg.gasMessageMultiplier
        IN /\ call.result.tokenGasCost =
                  (call.raw.tokenGasCost * gasCfg.gasPadding * multiplier)
                      \div (FixedPoint * FixedPoint)
           /\ call.result.nativeGasCost =
                  (call.raw.nativeGasCost * gasCfg.gasPadding) \div FixedPoint

\* C11 (amended): nativeGasCost = floor(raw * gasPadding / 10^18) and
\* tokenGasCost = floor(floor(raw * gasPadding / 10^18) * gasMultiplier / 10^18):
\* the token cost is truncated after the padding and again after the multiplier,
\* so it is at most floor(raw * gasPadding * gasMultiplier / 10^36) and falls
\* short of it by less than gasMultiplier / 10^18 + 1. The multiplier (the message
\* multiplier for a deposit with a message) is applied to the token cost only,
\* and the gas price is passed through.
C11_ScalingInTwoDivisions ==
    (IsCostCall /\ ~call.result.threw) =>
        LET multiplier == IF call.deposit.messageEmpty
                          THEN gasCfg.gasMultiplier ELSE gasCfg.gasMessageMultiplier
            padded == (call.raw.tokenGasCost * gasCfg.gasPadding) \div FixedPoint
            exact == call.raw.tokenGasCost * gasCfg.gasPadding * multiplier
            scale == FixedPoint * FixedPoint
        IN /\ call.result.tokenGasCost = (padded * multiplier) \div FixedPoint
           /\ call.result.tokenGasCost <= exact \div scale
           /\ exact < (call.result.tokenGasCost + 1) * scale + multiplier * FixedPoint
           /\ call.result.nativeGasCost =
                  (call.raw.nativeGasCost * gasCfg.gasPadding) \div FixedPoint
           /\ call.result.gasPrice = call.raw.gasPrice

\* A deposit with a message whose padded token cost does not divide: raw 3 padded
\* by 1.5 is truncated to 4 and doubled to 8 (9 in one division), while the native
\* cost is padded only.
C11_Witness ==
    /\ IsCostCall /\ ~call.result.threw
    /\ ~call.deposit.messageEmpty
    /\ gasCfg.gasPadding = 1500 /\ gasCfg.gasMultiplier # gasCfg.gasMessageMultiplier
    /\ call.raw.tokenGasCost = 3 /\ call.result.tokenGasCost = 8
    /\ call.raw.nativeGasCost = 100 /\ call.result.nativeGasCost = 150

(***************************************************************************)
(* C12: tracking and finalization keep the cumulative balance               *)
(***************************************************************************)
\* A pass has computed its plans.
PassStarted == rebalancePc \in {"awaitBalance", "awaitSend", "done"} /\ rebalancesRequired # <<>>

\* C12: from the start of a pass on, after every trackCrossChainTransfer and after
\* every later finalization of a tracked transfer, getCumulativeBalance(l1Token) is
\* what it was before the first call: each tracked amount has left the hub
\* balance and is held either as a pending inbound transfer or, once finalized,
\* in the balance of its chain.
C12_TrackingKeepsCumulativeBalance ==
    PassStarted =>
        /\ getCumulativeBalance(L1Token) = passHistory.startCumulative
        /\ tokenBalances[<<HubChain, L1Token>>] =
               passHistory.startBalance - SumOver(PlanAmounts, AcceptedPlans)
        /\ \A i \in DOMAIN executedTransactions \ passHistory.finalized :
               outstandingTransfers[<<executedTransactions[i].chainId,
                                      executedTransactions[i].l2Token>>]
                   >= executedTransactions[i].amount

\* A pass tracked and submitted two transfers, one of which is finalized on a chain
\* whose token has other decimals than the L1 token.
C12_Witness ==
    /\ rebalancePc = "done"
    /\ Len(executedTransactions) >= 2
    /\ \E i \in passHistory.finalized :
          TokenDecimalsOn(executedTransactions[i].chainId) # L1TokenDecimals
    /\ \E i \in DOMAIN executedTransactions : i \notin passHistory.finalized

(***************************************************************************)
(* C13: saturation of the excess running balance percentage                *)
(***************************************************************************)
\* getExcessRunningBalancePcts has returned to the call for the deposit.
ExcessPctsComputed ==
    /\ refundPc \in {"returned", "threw"}
    /\ L1Token \in DOMAIN excessRunningBalancePromises
    /\ excessRunningBalancePromises[L1Token].state = "resolved"

ExcessOf(c) == excessRunningBalancePromises[L1Token].value[c]
RefundAmount == inputAmountInL1TokenDecimals(deposit)
ExcessPctOf(c) ==
    getExcessRunningBalancePcts(excessRunningBalancePromises[L1Token].value, L1Token,
                                RefundAmount)[c]
EvaluatedSlowChains == DOMAIN excessRunningBalancePromises[L1Token].value

\* C13 (as stated): a slow-withdrawal chain with a spoke target of 0 and an excess
\* running balance above 0 has the percentage MAX_UINT whatever the refund amount,
\* and a chain whose target is at least its post-relay excess has the percentage 0.
C13_ZeroTargetSaturates ==
    ExcessPctsComputed =>
        \A c \in EvaluatedSlowChains :
            /\ (spokeTargets[c] = 0 /\ ExcessOf(c) > 0) => ExcessPctOf(c) = Uint256Max
            /\ spokeTargets[c] >= ExcessOf(c) - RefundAmount => ExcessPctOf(c) = 0

\* C13 (amended): a slow-withdrawal chain with a spoke target of 0 and an excess
\* running balance above the refund amount has the percentage MAX_UINT, and a
\* chain whose target is at least its post-relay excess has the percentage 0,
\* also when its target is 0.
C13_ZeroTargetSaturatesAboveRefund ==
    ExcessPctsComputed =>
        \A c \in EvaluatedSlowChains :
            /\ (spokeTargets[c] = 0 /\ ExcessOf(c) > RefundAmount) => ExcessPctOf(c) = Uint256Max
            /\ spokeTargets[c] >= ExcessOf(c) - RefundAmount => ExcessPctOf(c) = 0
            /\ ExcessPctOf(c) > 0 => Includes(chainsWithExcessSpokeBalances(
                                         [x \in EvaluatedSlowChains |-> ExcessPctOf(x)]), c)

\* A chain with target 0 and an excess of 80 saturates for a refund of 60 and comes
\* first in the returned list, before a chain with an excess of 100% of its target.
C13_Witness ==
    /\ ExcessPctsComputed
    /\ RefundAmount = 60
    /\ \E c \in EvaluatedSlowChains :
          /\ spokeTargets[c] = 0 /\ ExcessOf(c) = 80 /\ ExcessPctOf(c) = Uint256Max
          /\ refundResult.chains # <<>> /\ refundResult.chains[1] = c
    /\ \E c \in EvaluatedSlowChains :
          spokeTargets[c] = 10 /\ ExcessOf(c) = 80 /\ ExcessPctOf(c) = FixedPoint

(***************************************************************************)
(* C14: the finalization query is an inner join                            *)
(***************************************************************************)
\* The hub-chain initiations to the queried address in the translated range.
InitiationsInRange ==
    SelectSeq(l1Log, LAMBDA e :
        /\ e.to = bridgeArgs.toAddress
        /\ e.blockNumber * 12 + 11 >= bridgeArgs.eventConfig.from * 2
        /\ e.blockNumber * 12 <= bridgeArgs.eventConfig.to * 2)

ValueOfHash(hash) ==
    SelectSeq(InitiationsInRange, LAMBDA e : e.messageHash = hash /\ e.value > 0)[1].value

\* The inner join: per finalization in the queried range whose hash is the hash of
\* a non-zero initiation, that initiation's value at the finalization's place.
RECURSIVE InnerJoin(_)
InnerJoin(finalizations) ==
    IF finalizations = <<>> THEN <<>>
    ELSE LET f == Head(finalizations)
             joins == /\ InRange(f, bridgeArgs.eventConfig)
                      /\ \E i \in DOMAIN InitiationsInRange :
                            /\ InitiationsInRange[i].messageHash = f.messageHash
                            /\ InitiationsInRange[i].value > 0
         IN (IF joins
             THEN <<[amount |-> ValueOfHash(f.messageHash), blockNumber |-> f.blockNumber,
                     txnIndex |-> f.transactionIndex, logIndex |-> f.logIndex,
                     txnRef |-> f.transactionHash]>>
             ELSE <<>>)
            \o InnerJoin(Tail(finalizations))

\* C14: what queryL2BridgeFinalizationEvents returns is exactly the inner join by
\* message hash of the non-zero hub-chain initiations with the destination's
\* finalizations, each match with the initiation's value and the finalization's
\* coordinates, so a zero-value initiation never gives a match; with no
\* initiation the result is empty and the finalizations were not queried.
C14_ReturnsInnerJoin ==
    bridgePc = "returned" =>
        /\ bridgeResult.events = InnerJoin(l2Log)
        /\ \A i \in DOMAIN bridgeResult.events : bridgeResult.events[i].amount > 0
        /\ InitiationsInRange = <<>> =>
              bridgeResult = NoBridgeEvents /\ internalMessageHashes = Undefined

\* The initiations h1 with value 0, h2 with 10 and h3 with 20 and the finalizations
\* of h2, h3 and h4 gave the matches of h2 and h3.
C14_Witness ==
    /\ bridgePc = "returned"
    /\ Len(l1Log) = 3 /\ bridgeArgs.toAddress = Relayer
    /\ {l2Log[i].messageHash : i \in DOMAIN l2Log} = {"h2", "h3", "h4"}
    /\ bridgeResult.keyed
    /\ bridgeResult.events =
          <<[amount |-> 10, blockNumber |-> 12, txnIndex |-> 1, logIndex |-> 2,
             txnRef |-> <<"l2", "h2">>],
            [amount |-> 20, blockNumber |-> 18, txnIndex |-> 1, logIndex |-> 2,
             txnRef |-> <<"l2", "h3">>]>>

(***************************************************************************)
(* C15, C16: the hub as the last resort and the order of the list          *)
(***************************************************************************)
\* The call has run through the loop over chainsToEvaluate.
RefundSelected ==
    /\ refundPc \in {"returned", "threw"}
    /\ bundleRefundsPromise = "resolved"
    /\ (~OriginForced /\ prioritizeLpUtilization) =>
           (/\ L1Token \in DOMAIN excessRunningBalancePromises
            /\ excessRunningBalancePromises[L1Token].state = "resolved")

\* The slow-withdrawal chains with an excess percentage above 0, highest first.
SlowChainsWithExcess ==
    IF ~OriginForced /\ prioritizeLpUtilization
    THEN chainsWithExcessSpokeBalances(
             getExcessRunningBalancePcts(excessRunningBalancePromises[L1Token].value, L1Token,
                                         RefundAmount))
    ELSE <<>>

\* The chain's expected post-relay allocation is above its effective target.
OverAllocated(chainId) ==
    /\ getTokenConfig(L1Token, chainId, getRemoteTokenForL1Token(L1Token, chainId)).defined
    /\ evaluateChain(deposit, chainId, refundLocals) = "skip"

Eligible(chainId) == evaluateChain(deposit, chainId, refundLocals) = "push"

\* C15: for a deposit that does not force origin repayment, with inventory
\* management enabled, whose destination and origin are both above their effective
\* target after the relay and for which no slow-withdrawal chain is eligible,
\* determineRefundChainId returns exactly [hub].
C15_OverAllocatedGivesHubOnly ==
    (/\ RefundSelected /\ ~OriginForced /\ isInventoryManagementEnabled
     /\ OverAllocated(deposit.destinationChainId)
     /\ OverAllocated(deposit.originChainId)
     /\ \A c \in SeqToSet(SlowChainsWithExcess) : ~Eligible(c)) =>
        refundResult = Returned(<<HubChain>>)

\* Two slow-withdrawal chains with excess, the destination and the origin were
\* all evaluated and found over-allocated, and the hub alone was returned.
C15_Witness ==
    /\ RefundSelected /\ ~OriginForced /\ isInventoryManagementEnabled
    /\ Len(SlowChainsWithExcess) = 2
    /\ deposit.destinationChainId \notin SeqToSet(SlowChainsWithExcess) \cup {HubChain}
    /\ deposit.originChainId \notin
           SeqToSet(SlowChainsWithExcess) \cup {HubChain, deposit.destinationChainId}
    /\ \A c \in SeqToSet(chainsToEvaluateFor(deposit, SlowChainsWithExcess)) : OverAllocated(c)
    /\ Len(chainsToEvaluateFor(deposit, SlowChainsWithExcess)) = 4
    /\ refundResult = Returned(<<HubChain>>)

RECURSIVE IsSubsequence(_, _)
IsSubsequence(a, b) ==
    IF a = <<>> THEN TRUE
    ELSE IF b = <<>> THEN FALSE
    ELSE IF Head(a) = Head(b) THEN IsSubsequence(Tail(a), Tail(b))
    ELSE IsSubsequence(a, Tail(b))

NoChainTwice(chains) == \A i, j \in DOMAIN chains : chains[i] = chains[j] => i = j

\* The slow-withdrawal chains with excess come by descending percentage.
SlowChainsDescending ==
    \A i, j \in DOMAIN SlowChainsWithExcess :
        i < j => ExcessPctOf(SlowChainsWithExcess[i]) >= ExcessPctOf(SlowChainsWithExcess[j])

\* C16 (as stated): the returned list is in the order of preference: the
\* slow-withdrawal chains with an excess percentage above 0 by descending
\* percentage, then the destination, then the origin, then the hub as the
\* fallback, each chain once; the allocation check removes entries and never
\* reorders them.
C16_PreferenceOrder ==
    (RefundSelected /\ isInventoryManagementEnabled /\ ~refundResult.threw) =>
        /\ SlowChainsDescending
        /\ IsSubsequence(refundResult.chains,
                         AddAllToSet(SlowChainsWithExcess,
                                     <<deposit.destinationChainId, deposit.originChainId>>)
                         \o <<HubChain>>)
        /\ NoChainTwice(refundResult.chains)

\* C16 (amended): as stated, except that for a deposit to a lite chain the origin
\* comes before the destination.
C16_PreferenceOrderWithLiteOrigin ==
    (RefundSelected /\ isInventoryManagementEnabled /\ ~refundResult.threw) =>
        /\ SlowChainsDescending
        /\ IsSubsequence(refundResult.chains,
                         AddAllToSet(SlowChainsWithExcess,
                                     IF deposit.toLiteChain
                                     THEN <<deposit.originChainId, deposit.destinationChainId>>
                                     ELSE <<deposit.destinationChainId, deposit.originChainId>>)
                         \o <<HubChain>>)
        /\ NoChainTwice(refundResult.chains)

\* Two slow-withdrawal chains with different excess, the destination and the
\* origin are all under target: the list is [A, B, destination, origin, hub].
C16_Witness ==
    /\ RefundSelected /\ isInventoryManagementEnabled /\ ~deposit.toLiteChain
    /\ Len(SlowChainsWithExcess) = 2
    /\ ExcessPctOf(SlowChainsWithExcess[1]) > ExcessPctOf(SlowChainsWithExcess[2])
    /\ SlowChainsWithExcess[1] > SlowChainsWithExcess[2]
    /\ refundResult = Returned(SlowChainsWithExcess \o
                               <<deposit.destinationChainId, deposit.originChainId, HubChain>>)
    /\ Len(refundResult.chains) = 5

(***************************************************************************)
(* C17, C18: the memoized promises                                         *)
(***************************************************************************)
AtOrPastBundleRefunds(i) ==
    callers[i].pc \in {"awaitBundleRefunds", "awaitExcessRunningBalances"}

\* C17: however the calls interleave, getAllBundleRefunds is started once, by the
\* first caller to reach getBundleRefunds, and _getLatestRunningBalances once for
\* the L1 token, by the first caller to reach getExcessRunningBalancePcts; every
\* other caller awaits the stored promise.
C17_FetchedOnceByFirstCaller ==
    /\ fetches.bundleRefunds <= 1
    /\ fetches.runningBalances <= 1
    /\ fetches.bundleStarter = fetches.bundleFirst
    /\ fetches.runningStarter = fetches.runningFirst
    /\ \A i \in CallerIds :
          /\ AtOrPastBundleRefunds(i) => bundleRefundsPromise # Undefined
          /\ callers[i].pc = "awaitExcessRunningBalances" =>
                excessRunningBalancePromise(L1Token) # Undefined

\* All callers await the one pending promise of the bundle refunds.
C17_Witness ==
    /\ \A i \in CallerIds : callers[i].pc = "awaitBundleRefunds"
    /\ bundleRefundsPromise = "pending"
    /\ fetches.bundleRefunds = 1

\* C18: a stored promise is of the current update() cycle: update() clears
\* bundleRefundsPromise and excessRunningBalancePromises, so that a call after an
\* update() fetches anew and does not get the result or failure of an earlier cycle.
C18_PromisesOfThisCycle ==
    /\ bundleRefundsPromise # Undefined => fetches.bundleCycle = updates
    /\ excessRunningBalancePromise(L1Token) # Undefined => fetches.runningCycle = updates
    /\ \A i \in CallerIds :
          AtOrPastBundleRefunds(i) => fetches.bundleCycle = updates

\* A caller of the cycle after an update() threw on the promise that was
\* rejected in the cycle before.
C18_Witness ==
    /\ updates = 1
    /\ fetches.bundleCycle = 0
    /\ bundleRefundsPromise = "rejected"
    /\ \E i \in CallerIds : callers[i].pc = "threw"

(***************************************************************************)
(* C19, C20: submissions one by one, and no exception leaves the pass      *)
(***************************************************************************)
\* C19: the accepted transfers are submitted one after another in the order of the
\* plans: those executed are the first of the accepted ones, in their order, the
\* one submission in flight is the next accepted one, and none is submitted
\* before the loop over the plans has ended.
C19_SubmittedOneByOneInPlanOrder ==
    /\ IsSubsequence(possibleRebalances, rebalancesRequired)
    /\ Len(executedTransactions) <= Len(possibleRebalances)
    /\ executedTransactions = SubSeq(possibleRebalances, 1, Len(executedTransactions))
    /\ rebalancePc = "awaitSend" =>
          /\ planIndex = Len(executedTransactions) + 1
          /\ planIndex <= Len(possibleRebalances)
    /\ rebalancePc = "awaitBalance" => executedTransactions = <<>>

\* The first of two different accepted transfers is executed, the second in flight.
C19_Witness ==
    /\ rebalancePc = "awaitSend"
    /\ Len(possibleRebalances) = 2
    /\ possibleRebalances[1] # possibleRebalances[2]
    /\ executedTransactions = <<possibleRebalances[1]>>
    /\ planIndex = 2

\* C20: no exception leaves rebalanceInventoryIfNeeded: a failure of the planning,
\* of a balance re-read, of a submission or of the report construction is caught
\* and logged with the possible, unexecutable and executed plans, and the call
\* ends normally.
C20_FailuresCaughtAndLogged ==
    /\ rebalancePc # "threw"
    /\ passHistory.caught =>
          /\ rebalancePc = "done"
          /\ passHistory.errorLog = [possibleRebalances |-> possibleRebalances,
                                     unexecutedRebalances |-> unexecutedRebalances,
                                     executedTransactions |-> executedTransactions]

\* A submission failed after one transfer was executed and one plan was found
\* unexecutable: the error was logged with the three lists and the pass ended.
C20_Witness ==
    /\ rebalancePc = "done" /\ passHistory.caught
    /\ Len(passHistory.errorLog.executedTransactions) = 1
    /\ Len(passHistory.errorLog.possibleRebalances) = 2
    /\ Len(passHistory.errorLog.unexecutedRebalances) = 1

(***************************************************************************)
(* C21: a failed price request leaves the cached prices alone              *)
(***************************************************************************)
\* Every price of the cache is still there, with its value, after the step.
PricesKept == \A a \in DOMAIN tokenPrices :
                 a \in DOMAIN tokenPrices' /\ tokenPrices'[a] = tokenPrices[a]

\* C21: from the start of updateTokenPrices to the failure of its price request no
\* cached price is removed or changed (the start only adds the new addresses, the
\* failure writes nothing), and with the failure updateTokenPrices, and update()
\* with it, rejects.
C21_FailedRequestKeepsPrices ==
    [][/\ pricePc' = "awaiting" => PricesKept
       /\ pricePc' = "failed" => PricesKept /\ updatePc' = "rejected"]_vars

\* The price request of the second update() failed with a price in the cache.
C21_Witness ==
    /\ pricePc = "failed" /\ tick = 2 /\ priceTick = 1
    /\ \E a \in DOMAIN tokenPrices : tokenPrices[a] > 0

(***************************************************************************)
(* C22: a candidate is returned iff its expected allocation fits its target *)
(***************************************************************************)
\* The chains the selector evaluated, in its order.
Candidates == chainsToEvaluateFor(deposit, SlowChainsWithExcess)

RepaymentTokenOn(c) == getRemoteTokenForL1Token(L1Token, c)
ConfigOn(c) == getTokenConfig(L1Token, c, RepaymentTokenOn(c))

\* The expected post-relay allocation of the chain, as the claim computes it.
ExpectedPostRelayAllocation(c) ==
    LET balance == getBalanceOnChain(c, L1Token, RepaymentTokenOn(c))
        shortfall == ShortfallInL1Decimals(c, RepaymentTokenOn(c))
        input == IF c = deposit.destinationChainId /\ deposit.tokensEquivalent
                 THEN 0 ELSE RefundAmount
    IN BNDiv((balance - shortfall + input + refundLocals.totalRefundsPerChain[c]) * FixedPoint,
             refundLocals.cumulativeVirtualBalance + refundLocals.cumulativeRefunds)

\* The effective target of the chain, as the claim computes it.
EffectiveTarget(c) ==
    LET config == ConfigOn(c)
        buffer == IF config.hasOverageBuffer THEN config.targetOverageBuffer ELSE 1500
    IN IF deposit.toLiteChain /\ c = deposit.destinationChainId
       THEN config.targetPct
       ELSE BNDiv(config.targetPct * buffer, FixedPoint)

FitsTarget(c) == ExpectedPostRelayAllocation(c) <= EffectiveTarget(c)

\* The selector went through its loop and returned a list.
LoopReturned ==
    /\ RefundSelected /\ refundPc = "returned" /\ isInventoryManagementEnabled
    /\ ~invalidOutputToken(deposit)

\* C22 (as stated): every candidate chain is in the returned list iff its expected
\* post-relay allocation is at most its effective target.
C22_IncludedIffFitsTarget ==
    LoopReturned =>
        \A c \in SeqToSet(Candidates) :
            ConfigOn(c).defined =>
                (Includes(refundResult.chains, c) <=> FitsTarget(c))

\* C22 (amended): every candidate chain with a token config, the hub aside, is in
\* the returned list iff its expected post-relay allocation is at most its
\* effective target; the hub is in the list of every deposit that does not force
\* origin repayment, whatever its allocation.
C22_IncludedIffFitsTargetHubAside ==
    LoopReturned =>
        /\ \A c \in SeqToSet(Candidates) \ {HubChain} :
              ConfigOn(c).defined =>
                  (Includes(refundResult.chains, c) <=> FitsTarget(c))
        /\ ~OriginForced => Includes(refundResult.chains, HubChain)
        /\ OriginForced =>
              \A c \in SeqToSet(Candidates) :
                  ConfigOn(c).defined =>
                      (Includes(refundResult.chains, c) <=> FitsTarget(c))

\* The destination of a deposit to a lite chain was left out though it is within
\* its target times the buffer, the origin was taken for being within its own, and
\* the hub was returned after it.
C22_Witness ==
    /\ LoopReturned
    /\ deposit.toLiteChain
    /\ Includes(Candidates, deposit.destinationChainId)
    /\ deposit.destinationChainId # HubChain
    /\ ConfigOn(deposit.destinationChainId).defined
    /\ ~FitsTarget(deposit.destinationChainId)
    /\ ExpectedPostRelayAllocation(deposit.destinationChainId)
          <= effectiveTargetPctWithOverage(deposit, deposit.destinationChainId,
                                           ConfigOn(deposit.destinationChainId))
    /\ ~Includes(refundResult.chains, deposit.destinationChainId)
    /\ deposit.originChainId # deposit.destinationChainId
    /\ Includes(refundResult.chains, deposit.originChainId)
    /\ ConfigOn(deposit.originChainId).defined
    /\ FitsTarget(deposit.originChainId)
    /\ Includes(refundResult.chains, HubChain)

(***************************************************************************)
(* C23: the returned chains are possible repayment chains                  *)
(***************************************************************************)
\* The call got as far as the check of its candidates.
ReachedSanityCheck ==
    /\ refundPc \in {"returned", "threw"}
    /\ ~beforeBundleRefunds(deposit).ends
    /\ L1Token \in DOMAIN excessRunningBalancePromises

CandidateNotPossible ==
    \E c \in SeqToSet(Candidates) : ~Includes(getPossibleRepaymentChainIds(deposit), c)

\* C23: every chain determineRefundChainId returns is one of
\* getPossibleRepaymentChainIds(deposit), and a call with a candidate that is not
\* throws instead of returning a list.
C23_ReturnedChainsArePossible ==
    /\ RefundReturned =>
          \A c \in SeqToSet(refundResult.chains) :
              Includes(getPossibleRepaymentChainIds(deposit), c)
    /\ (ReachedSanityCheck /\ CandidateNotPossible) => refundPc = "threw"

\* A call returned three chains, slow-withdrawal chain, destination and hub.
C23_Witness ==
    /\ RefundReturned /\ ReachedSanityCheck
    /\ Len(refundResult.chains) = 3
    /\ Len(SlowChainsWithExcess) >= 1

\* A call threw for a slow-withdrawal chain of the stored running balances that
\* the hub pool has no route to any more.
C23_WitnessThrows ==
    /\ ReachedSanityCheck /\ CandidateNotPossible /\ refundPc = "threw"
    /\ \E c \in SeqToSet(SlowChainsWithExcess) : ~l2TokenEnabledForL1Token(c)

(***************************************************************************)
(* C24: a plan whose hub balance changed on chain is skipped               *)
(***************************************************************************)
\* The step is the return of balanceOf with a balance other than the one recorded
\* in the plan at planIndex.
BalanceFoundChanged ==
    /\ rebalancePc = "awaitBalance"
    /\ planIndex \in passHistory'.skipped \ passHistory.skipped

\* C24: a plan that fits the budget has its hub balance re-read before it is
\* accepted (the pass waits for balanceOf at it); when the balance read differs
\* from the one recorded in the plan, the plan is not accepted and never
\* submitted, the local hub balance and the outstanding transfers stay as they
\* are, and the pass goes on with the next plan.
C24_ChangedBalanceSkipsPlan ==
    [][/\ BalanceFoundChanged =>
             /\ tokenBalances' = tokenBalances
             /\ outstandingTransfers' = outstandingTransfers
             /\ possibleRebalances' = possibleRebalances
             /\ ~passHistory'.caught
             /\ passHistory'.considered >= planIndex
             /\ rebalancePc' = "awaitBalance" => planIndex' > planIndex
       /\ \A i \in passHistory'.skipped :
             /\ ~Includes(possibleRebalances', rebalancesRequired'[i])
             /\ ~Includes(executedTransactions', rebalancesRequired'[i])
       /\ (rebalancePc = "awaitBalance" /\ possibleRebalances' # possibleRebalances) =>
             /\ planIndex \notin passHistory'.skipped
             /\ possibleRebalances' = Append(possibleRebalances, rebalancesRequired[planIndex])]_vars

\* The first plan was skipped for a changed balance, a later one was accepted
\* and submitted, and the hub balance went down by the accepted amounts only.
C24_Witness ==
    /\ rebalancePc = "done" /\ ~passHistory.caught
    /\ 1 \in passHistory.skipped
    /\ Len(executedTransactions) >= 1
    /\ tokenBalances[<<HubChain, L1Token>>] =
           passHistory.startBalance
               - SumSeq([i \in DOMAIN executedTransactions |-> executedTransactions[i].amount],
                        [i \in DOMAIN executedTransactions |-> i])

(***************************************************************************)
(* C25, C27: the L2 -> L1 excess withdrawals                               *)
(***************************************************************************)
\* C25 (as stated): no two withdrawTokenFromL2 submissions are in flight at the
\* same time, on one chain or on different chains.
C25_OneWithdrawalInFlight == Cardinality(withdrawalsInFlight) <= 1

\* Two withdrawals of one chain and one of another are in flight together.
C25_Witness ==
    /\ withdrawPc = "awaitWithdrawals"
    /\ \E a, b, c \in withdrawalsInFlight : a[1] = b[1] /\ a[2] # b[2] /\ c[1] # a[1]

\* The withdrawals planned for the pair.
PlansOf(pair) ==
    {i \in DOMAIN withdrawalsRequired[pair[1]] :
        withdrawalsRequired[pair[1]][i].l2Token = pair[2]}

\* The threshold, the cap and the desired amount of a configured pair, as the
\* claim computes them.
ClaimedThresholdPct(config) ==
    BNDiv(config.targetPct * config.targetOverageBuffer * discountToTargetOverageBuffer,
          FixedPoint * FixedPoint)

ClaimedCap(pair, config) ==
    BNDiv((ClaimedThresholdPct(config) - config.targetPct)
              * ConvertDecimals(L1TokenDecimals, TokenDecimalsOn(pair[1]),
                                getCumulativeBalance(L1Token)),
          FixedPoint)

ClaimedAmount(pair, config) ==
    BNDiv(ConvertDecimals(L1TokenDecimals, TokenDecimalsOn(pair[1]),
                          getCumulativeBalance(L1Token))
              * (getCurrentAllocationPct(L1Token, pair[1], pair[2]) - config.targetPct),
          FixedPoint)

\* The pair has a period configured and an allocation at or above the threshold.
HasExcess(pair) ==
    LET config == getTokenConfig(L1Token, pair[1], pair[2])
    IN /\ config.defined /\ config.hasWithdrawExcessPeriod
       /\ getCurrentAllocationPct(L1Token, pair[1], pair[2]) >= ClaimedThresholdPct(config)

UnderCap(pair) ==
    withdrawWorld.pending[pair]
        < ClaimedCap(pair, getTokenConfig(L1Token, pair[1], pair[2]))

PlanningEnded == withdrawPc \in {"awaitWithdrawals", "done"} /\ pendingAsked = {}

PlannedAmount(plans) ==
    SumSeq([i \in DOMAIN plans |-> plans[i].amount], [i \in DOMAIN plans |-> i])

\* C28: when the submission of the k-th accepted rebalance fails, the k-1 plans
\* before it are the executed ones and no later plan is submitted, the pass ends,
\* and the reservations of every accepted plan stay: the local hub balance is the
\* balance at the start less the amounts of all accepted plans and the pending
\* inbound total is the total at the start plus those amounts, so the hub balance
\* is below and the pending total above what the sent transfers account for.
C28_FailedSubmissionKeepsReservations ==
    passHistory.failedSubmission > 0 =>
       LET k == passHistory.failedSubmission
           sent == PlannedAmount(executedTransactions)
           accepted == PlannedAmount(possibleRebalances)
       IN /\ rebalancePc = "done"
          /\ executedTransactions = SubSeq(possibleRebalances, 1, k - 1)
          /\ tokenBalances[<<HubChain, L1Token>>] = passHistory.startBalance - accepted
          /\ OutstandingTotal = passHistory.startOutstanding + accepted
          /\ tokenBalances[<<HubChain, L1Token>>] < passHistory.startBalance - sent
          /\ OutstandingTotal > passHistory.startOutstanding + sent

\* The second of three accepted transfers failed: one was sent, one failed, one
\* was never submitted, and the hub balance is down by all three amounts.
C28_Witness ==
    /\ passHistory.failedSubmission = 2
    /\ Len(possibleRebalances) = 3
    /\ Len(executedTransactions) = 1
    /\ tokenBalances[<<HubChain, L1Token>>]
          = passHistory.startBalance - PlannedAmount(possibleRebalances)

(***************************************************************************)
(* C26: the planners reserve a plan's amount when the plan is prepared     *)
(***************************************************************************)
\* The transfer planner: with plans accepted, the local hub balance is the balance
\* at the start of the pass less the amounts of the plans accepted so far.
RebalancePlansReserved ==
    possibleRebalances # <<>> =>
       tokenBalances[<<HubChain, L1Token>>]
          = passHistory.startBalance - PlannedAmount(possibleRebalances)

\* The amounts of the planned unwraps of a chain together.
UnwrapsPlannedOn(chainId) ==
    SumSeq([i \in DOMAIN unwrapsRequired |->
               IF unwrapsRequired[i].chainInfo.chainId = chainId
               THEN unwrapsRequired[i].amount ELSE 0],
           [i \in DOMAIN unwrapsRequired |-> i])

\* The unwrap planner: the local WETH balance of every chain is the balance at
\* the start of the pass less the amounts of the unwraps planned on it.
UnwrapPlansReserved ==
    unwrapPc \notin {"off", "idle"} =>
       \A c \in Chains :
          tokenBalances[<<c, CanonicalToken>>]
             = unwrapHistory.startBalances[<<c, CanonicalToken>>] - UnwrapsPlannedOn(c)

\* The amounts of the planned withdrawals of a chain's token together.
WithdrawalsPlannedOf(pair) ==
    LET plans == withdrawalsRequired[pair[1]]
    IN SumSeq([i \in DOMAIN plans |->
                  IF plans[i].l2Token = pair[2] THEN plans[i].amountToWithdraw ELSE 0],
              [i \in DOMAIN plans |-> i])

\* The withdrawal planner: the local balance of every chain's token is the
\* balance at the start of the pass less the amounts of the withdrawals planned.
WithdrawalPlansReserved ==
    withdrawPc \notin {"off", "idle"} =>
       \A pair \in Chains \X L2Tokens :
          tokenBalances[pair] = withdrawHistory.startBalances[pair] - WithdrawalsPlannedOf(pair)

\* C26: in each of the three planners the local balance of the token being spent
\* is decremented by a plan's amount as soon as the plan is prepared: at every
\* point of a pass it is the balance at the start less the amounts planned so far.
C26_PlansReservedWhenPrepared ==
    /\ RebalancePlansReserved
    /\ UnwrapPlansReserved
    /\ WithdrawalPlansReserved

\* Two unwraps are planned and the first is being submitted: the WETH balance of
\* the second plan's chain is still the balance at the start of the pass.
C26_Witness ==
    /\ unwrapPc = "awaitUnwrap"
    /\ Len(unwrapsRequired) = 2
    /\ unwrapIndex = 1
    /\ LET c == unwrapsRequired[2].chainInfo.chainId
       IN tokenBalances[<<c, CanonicalToken>>] = unwrapHistory.startBalances[<<c, CanonicalToken>>]

\* Withdrawals are planned and submitted, all balances as at the start.
C26_WitnessWithdrawals ==
    /\ withdrawPc = "awaitWithdrawals"
    /\ \E pair \in Chains \X L2Tokens : WithdrawalsPlannedOf(pair) > 0
    /\ tokenBalances = withdrawHistory.startBalances

(***************************************************************************)
(* C29: a failed template simulation is cached until the next update       *)
(***************************************************************************)
\* The call gets as far as getTotalGasCost: both token prices and the gas token
\* price are found and the input is worth more than 0 USD.
ReachesGasCost(d) ==
    LET inputPrice == getPriceOfToken(d.inputSymbol)
    IN /\ ~inputPrice.threw
       /\ ~getPriceOfToken(d.outputSymbol).threw
       /\ ~getPriceOfToken(GasTokenSymbol).threw
       /\ amountUsd(d.inputAmount, d.inputSymbol, inputPrice.price) # 0

\* C29: a chain whose last template simulation in update() failed has the
\* uint256Max triple as its cached cost; while it has, isFillProfitable for a
\* deposit without a message to that chain runs no simulation and returns
\* profitable = false with the uint256Max triple, and for a deposit with a message
\* it simulates whenever it gets as far as the gas cost.
C29_FailedTemplateIsCachedSentinel ==
    /\ \A c \in ProfitChains :
          gasSim[c] = "fail" =>
             c \in DOMAIN totalGasCosts /\ totalGasCosts[c] = Uint256MaxTriple
    /\ (IsFillCall /\ gasSim[call.deposit.destinationChainId] = "fail") =>
          IF call.deposit.messageEmpty
          THEN /\ call.sim = "none"
               /\ ~call.result.profitable
               /\ call.result.nativeGasCost = Uint256Max
               /\ call.result.tokenGasCost = Uint256Max
               /\ call.result.gasPrice = Uint256Max
          ELSE ReachesGasCost(call.deposit) => call.sim \in {"ok", "fail"}

\* With the sentinel cached for the chain at the first update() and the second
\* update() not yet there, a deposit without a message whose prices are known is
\* returned as unprofitable without a simulation.
C29_Witness ==
    /\ IsFillCall /\ call.deposit.messageEmpty
    /\ gasSim[call.deposit.destinationChainId] = "fail"
    /\ gasTick[call.deposit.destinationChainId] = 1 /\ tick = 2
    /\ ReachesGasCost(call.deposit)
    /\ call.sim = "none"
    /\ ~call.result.profitable

\* With the sentinel cached, a deposit with a message is simulated and returned
\* as profitable.
C29_WitnessMessage ==
    /\ IsFillCall /\ ~call.deposit.messageEmpty
    /\ gasSim[call.deposit.destinationChainId] = "fail"
    /\ call.sim = "ok"
    /\ call.result.profitable /\ ~isTestnet

(***************************************************************************)
(* C30: no chain is returned twice                                         *)
(***************************************************************************)
\* C30: whenever determineRefundChainId returns, for every deposit and
\* configuration, its list has as many different chains as it has entries.
C30_NoChainReturnedTwice ==
    (refundPc = "returned" /\ ~refundResult.threw) =>
        Cardinality(SeqToSet(refundResult.chains)) = Len(refundResult.chains)

\* A deposit to a slow-withdrawal chain with excess, from a chain other than the
\* hub: destination, origin and hub are returned, each once.
C30_Witness ==
    /\ refundPc = "returned" /\ RefundSelected /\ isInventoryManagementEnabled
    /\ ~OriginForced /\ prioritizeLpUtilization
    /\ Includes(SlowChainsWithExcess, deposit.destinationChainId)
    /\ deposit.originChainId # HubChain
    /\ \A c \in {deposit.destinationChainId, deposit.originChainId, HubChain} :
          Cardinality({i \in DOMAIN refundResult.chains : refundResult.chains[i] = c}) = 1

\* A deposit whose origin is its destination, and one whose destination is the
\* hub: the chain is returned once.
C30_WitnessSameChain ==
    /\ refundPc = "returned" /\ isInventoryManagementEnabled
    /\ deposit.originChainId = deposit.destinationChainId
    /\ deposit.originChainId # HubChain
    /\ Cardinality({i \in DOMAIN refundResult.chains :
                       refundResult.chains[i] = deposit.originChainId}) = 1
    /\ Len(refundResult.chains) = 2

C30_WitnessHubDestination ==
    /\ refundPc = "returned" /\ isInventoryManagementEnabled
    /\ deposit.destinationChainId = HubChain
    /\ deposit.originChainId # HubChain
    /\ refundResult.chains = <<HubChain, deposit.originChainId>>

====
